---- MODULE Spec2Model ----
(***************************************************************************)
(* A model of the execution and retry engine of llm_etl:                   *)
(*   core/state.py      GlobalState (the per-row record)                   *)
(*   steps/base.py      AbstractBaseStep.run                               *)
(*   steps/classifier.py, steps/summarizer.py  the business-rule steps     *)
(*   llm/client.py      LLMClientWithRetry.complete_with_validation        *)
(*   llm/providers/mock.py  MockProvider                                   *)
(*   core/pipeline.py   Pipeline.run, _process_row, _handle_error,         *)
(*                      _write_dead_letter                                 *)
(*                                                                         *)
(* Names follow the source: pk (the record key), raw (origin), processed   *)
(* (results), log (trace).                                                 *)
(***************************************************************************)
EXTENDS Integers, Sequences, FiniteSets, TLC

VARIABLES
    \* ---- Pipeline configuration (Pipeline.__init__) ----
    on_row_error,        \* "fail" | "skip" | "dead_letter"
    max_retries,         \* LLMClientWithRetry.max_retries
    source_kind,         \* "csv" (CSVSource)  |  "sql" (SQLServerSource)
    num_rows,            \* rows the source holds
    dry_run,             \* the dry_run argument of run()
    provider,            \* the LLMClient handed to the pipeline (llm_provider)
    \* ---- Pipeline.run locals ----
    pc,                  \* position of the single thread of control
    cur,                 \* number of rows the source iterator has yielded
    state,               \* the GlobalState in flight
    stepIdx,             \* index into self.steps inside _process_row
    success_count,
    failure_count,
    total_count,
    pendingError,        \* the exception being propagated / handled
    raisedError,         \* the exception that left run()
    result,              \* the PipelineResult run() returned
    interruptedAt,       \* pc at which KeyboardInterrupt was delivered ("" = none)
    failures,            \* the rows whose exception run() caught, in order
    \* ---- complete_with_validation locals ----
    messages,            \* the caller's message list
    current_messages,    \* the working copy
    accumulated_errors,
    attempt,
    calls,               \* invocations of client.complete in the current call
    response,
    \* ---- durable outputs ----
    payload_log,         \* logs/llm_payloads.jsonl
    sink,                \* rows accepted by the sink
    dead_letter,         \* lines appended to the dead letter file by this run
    \* ---- a GlobalState under direct use (state.py) ----
    gs,                  \* the object
    gsOp,                \* the last operation performed on it
    gsErr,               \* exception raised by that operation
    gsDict,              \* last to_dict() output
    restored,            \* last from_dict() output
    \* ---- ClassifierStep construction (classifier.py) ----
    taxonomyArg,         \* the taxonomy argument
    clf,                 \* the constructed step
    ctorErr,             \* exception raised by the constructor
    \* ---- writers of one CSV file (csv_sink.py) ----
    sinkOf,              \* the CSVSink object each writer calls
    lock,                \* holder of each sink object's _lock
    wpc,                 \* position of each writer in write / write_batch
    call,                \* the operation called and the number of states passed
    rows,                \* the rows extracted
    file_exists,         \* the local file_exists
    buffer,              \* lines written to the file object, not yet on the file
    pos,                 \* rows handed to the csv writer so far
    wErr,                \* exception that left the call
    file,                \* the lines of the file
    \* ---- SQLServerSink.write_batch (sql_server.py) ----
    sqlPc,
    sqlN,                \* number of states passed
    sqlPos,              \* states merged so far
    txn,                 \* rows merged in the open transaction
    table,               \* committed rows of the target table
    sqlErr,
    \* ---- a summary under the checks of SummarizerStep (summarizer.py) ----
    sumIn,               \* text and word_count as the provider returned them
    parsed_rules,        \* self.parsed_rules
    sumOut,              \* the SummaryOutput execute() returns
    sumErr,              \* exception raised instead
    sumPc,
    \* ---- progress logging of run() (pipeline.py) ----
    total_rows,          \* self.source.count()
    seen,                \* total_count
    reported,            \* a progress line was logged after the last record
    progErr              \* exception raised by the progress block

pipeVars == <<on_row_error, max_retries, source_kind, num_rows, dry_run, provider,
              failures, pc, cur, state, stepIdx,
              success_count, failure_count, total_count, pendingError,
              raisedError, result, interruptedAt, messages, current_messages,
              accumulated_errors, attempt, calls, response, payload_log, sink,
              dead_letter>>
gsVars == <<gs, gsOp, gsErr, gsDict, restored>>
clfVars == <<taxonomyArg, clf, ctorErr>>
csvVars == <<sinkOf, lock, wpc, call, rows, file_exists, buffer, pos, wErr, file>>
sqlVars == <<sqlPc, sqlN, sqlPos, txn, table, sqlErr>>
sinkVars == <<csvVars, sqlVars>>
sumVars == <<sumIn, parsed_rules, sumOut, sumErr, sumPc>>
progVars == <<total_rows, seen, reported, progErr>>
fnVars == <<sumVars, progVars>>
vars == <<pipeVars, gsVars, clfVars, sinkVars, fnVars>>

-----------------------------------------------------------------------------
(* Bounds *)

NumRows == 2            \* rows the source holds
MaxRetriesBound == 1    \* max_retries ranges over 0..MaxRetriesBound
MaxSeconds == 1         \* timestamps have seconds 0..MaxSeconds
MaxMicros == 1          \* and microseconds 0..MaxMicros
MaxLogLen == 2          \* steps run on a GlobalState under direct use
MaxTaxonomy == 3        \* entries of a taxonomy argument
MaxMockRows == 3        \* rows of the source in a run over MockProvider
MaxMockRetries == 3     \* max_retries ranges over 0..MaxMockRetries in such a run

-----------------------------------------------------------------------------
(* Values *)

NoneVal == [t |-> "None"]
Str(x) == [t |-> "str", v |-> x]
DateTime(s, us) == [t |-> "datetime", s |-> s, us |-> us]

EmptyMap == [k \in {} |-> NoneVal]
Put(m, k, v) == [x \in (DOMAIN m) \cup {k} |-> IF x = k THEN v ELSE m[x]]

\* datetime.now(): the pipeline never compares clock readings, one reading stands for all
Now == DateTime(1, 0)

NoError == [type |-> "None"]

-----------------------------------------------------------------------------
(* core/state.py: GlobalState *)

\* An optional argument is None or a given value
Given(x) == [t |-> "given", v |-> x]

\* a state that keeps the dict itself: the write goes through
DictSetItem(raw, k, v) == [raw |-> Put(raw, k, v), err |-> [type |-> "None"]]

\* an isoformat cut at whole seconds
IsoFormatSeconds(dt) == Str(<<dt.s>>)

\* types.MappingProxyType over the dict: item assignment and deletion are not
\* supported by the proxy and raise TypeError; the dict is left as it was
ProxySetItem(raw, k, v) == [raw |-> raw, err |-> [type |-> "TypeError"]]
ProxyDelItem(raw, k) == [raw |-> raw, err |-> [type |-> "TypeError"]]

\* GlobalState.__init__ (lines 48-53): processed and log default to empty,
\* created_at defaults to now, completed_at to None
GlobalState(pk, raw, processed, log, created_at, completed_at) ==
    [pk |-> pk,
     raw |-> raw,
     processed |-> IF processed # NoneVal THEN processed.v ELSE EmptyMap,
     log |-> IF log # NoneVal THEN log.v ELSE <<>>,
     created_at |-> IF created_at # NoneVal THEN created_at ELSE Now,
     completed_at |-> completed_at]

\* datetime.isoformat(): "YYYY-MM-DDTHH:MM:SS", with ".ffffff" appended only
\* when microsecond is not 0.  The string is held as its list of fields.
IsoFormat(dt) == Str(IF dt.us = 0 THEN <<dt.s>> ELSE <<dt.s, dt.us>>)

\* datetime.fromisoformat(): a missing fraction reads as microsecond 0
FromIsoFormat(str) == DateTime(str.v[1], IF Len(str.v) > 1 THEN str.v[2] ELSE 0)

\* Python truth value: None and "" are false, a datetime is always true
Truthy(x) == x # NoneVal /\ (x.t = "str" => Len(x.v) > 0)

\* GlobalState.to_dict (lines 87-94)
ToDict(st) ==
    [pk |-> st.pk,
     raw |-> st.raw,
     processed |-> st.processed,
     log |-> st.log,
     created_at |-> IF Truthy(st.created_at) THEN IsoFormat(st.created_at) ELSE NoneVal,
     completed_at |-> IF Truthy(st.completed_at) THEN IsoFormat(st.completed_at) ELSE NoneVal]

\* GlobalState.from_dict (lines 134-150)
FromDict(data) ==
    LET created_at == IF Truthy(data.created_at)
                      THEN FromIsoFormat(data.created_at) ELSE NoneVal
        completed_at == IF Truthy(data.completed_at)
                        THEN FromIsoFormat(data.completed_at) ELSE NoneVal
    IN GlobalState(data.pk, data.raw, Given(data.processed), Given(data.log),
                   created_at, completed_at)

NoState == [pk |-> 0]

-----------------------------------------------------------------------------
(* sources: the rows the source yields *)

\* CSVSource yields dict(row): every value a string.  SQLServerSource yields
\* dict(zip(column_names, row)): values are the driver's Python objects, here a
\* datetime for the visit_date column.
RowRaw(kind, i) ==
    IF kind = "csv"
    THEN [note |-> Str("note"), visit_date |-> Str("2025-01-15")]
    ELSE IF kind = "csv_sparse"
    THEN \* a file without the note column
         [visit_date |-> Str("2025-01-15")]
    ELSE [note |-> Str("note"), visit_date |-> DateTime(1, 0)]

SourceRow(kind, i) == GlobalState(i, RowRaw(kind, i), NoneVal, NoneVal, NoneVal, NoneVal)

-----------------------------------------------------------------------------
(* steps: the configured step list (examples/patient_classification/run.py) *)

Taxonomy == <<[name |-> "Emergency", definition |-> "urgent"],
              [name |-> "Routine", definition |-> "scheduled"]>>

\* ClassifierStep.__init__: valid_categories = {cat.name for cat in taxonomy}
ValidCategories(taxonomy) == {taxonomy[i].name : i \in DOMAIN taxonomy}

\* SummarizerStep._parse_rules on ["Maximum 2 words"]
ParsedMaxWords == 2

Steps == <<[name |-> "visit_classifier", kind |-> "classifier", output_key |-> "visit_type"],
           [name |-> "note_summarizer", kind |-> "summarizer", output_key |-> "summary"]>>

\* What a schema-valid completion may carry.  A ClassificationOutput has a
\* category (any string passes the schema); a SummaryOutput has a text (here a
\* sequence of words) and the word count the model reports.
Responses(kind) ==
    IF kind = "classifier"
    THEN {[category |-> "Emergency"], [category |-> "emergency"]}
    ELSE {[text |-> <<"chest", "pain">>, word_count |-> 5],
          [text |-> <<"acute", "chest", "pain">>, word_count |-> 2]}

\* a check that ignores letter case
CategoryOkAnyCase(r) == r.category \in ValidCategories(Taxonomy) \cup {"emergency", "routine"}

\* ClassifierStep._validate_category: case-sensitive membership
CategoryOk(r) == r.category \in ValidCategories(Taxonomy)

\* SummarizerStep._validate_rules: len(text.split()) against max_words
ActualCount(r) == Len(r.text)
RulesOk(r) == ActualCount(r) <= ParsedMaxWords

BusinessRuleOk(kind, r) == IF kind = "classifier" THEN CategoryOk(r) ELSE RulesOk(r)

\* result.model_dump() after the rule check (the summarizer overwrites word_count)
ModelDump(kind, r) ==
    IF kind = "classifier" THEN r
    ELSE [text |-> r.text, word_count |-> ActualCount(r)]

\* _apply_input_map with the "text" extractor s.raw["note"] of both steps:
\* the key is there
HasInputs(st) == "note" \in DOMAIN st.raw

\* _build_prompt: [system, user]
BuildPrompt(step, pk) ==
    <<[role |-> "system", content |-> step.name, quoted |-> ""],
      [role |-> "user", content |-> "text", quoted |-> ""]>>

\* a step that replaces the results by its own output
StoreResultReplaces(st, step, r) ==
    [st EXCEPT !.processed = Put(EmptyMap, step.output_key, ModelDump(step.kind, r)),
               !.log = Append(st.log, step.name)]

\* AbstractBaseStep.run, steps 3 and 4: store the dump, append the step name
StoreResult(st, step, r) ==
    [st EXCEPT !.processed = Put(st.processed, step.output_key, ModelDump(step.kind, r)),
               !.log = Append(st.log, step.name)]

-----------------------------------------------------------------------------
(* core/exceptions.py *)

\* an error that keeps the last validation failure only
LLMValidationErrorLast(step_name, pk, validation_errors, retry_count) ==
    [type |-> "LLMValidationError", step_name |-> step_name, pk |-> pk,
     validation_errors |-> <<validation_errors[Len(validation_errors)]>>,
     retry_count |-> retry_count]

LLMValidationError(step_name, pk, validation_errors, retry_count) ==
    [type |-> "LLMValidationError", step_name |-> step_name, pk |-> pk,
     validation_errors |-> validation_errors, retry_count |-> retry_count]

StepExecutionError(step_name, pk, original_error) ==
    [type |-> "StepExecutionError", step_name |-> step_name, pk |-> pk,
     original_error |-> original_error]

OtherError(type) == [type |-> type]

-----------------------------------------------------------------------------
(* llm/client.py: LLMClientWithRetry *)

\* the error texts str(e) of a pydantic ValidationError
ValidationTexts == {"field required", "input should be a valid string"}

\* range(self.max_retries + 1)
InRange(a) == a < max_retries + 1

\* a client that gives up one retry early
RetriesLeftShort(a) == a + 1 < max_retries

\* a client that asks for one more retry than the loop has iterations
RetriesLeftOneMore(a) == a < max_retries + 1

\* "if attempt < self.max_retries"
RetriesLeft(a) == a < max_retries

\* a client that reports the retries made instead of the attempts made
RetriesOnlyCount == max_retries

\* retry_count passed to LLMValidationError when out of retries (line 146)
ExhaustedRetryCount == max_retries + 1

\* a client whose feedback message does not quote the failure
RetryMessageGeneric(error_msg) == [role |-> "user", content |-> "failed validation", quoted |-> ""]

RetryMessage(error_msg) == [role |-> "user", content |-> "failed validation", quoted |-> error_msg]

\* a client that appends the feedback to the list the caller passed in
AppendFeedbackAliased(msgs, cur_msgs, m) ==
    [messages |-> Append(msgs, m), current_messages |-> Append(cur_msgs, m)]

\* "current_messages = messages.copy()" (line 90) and
\* "current_messages.append(retry_message)" (line 139): the append goes to
\* the copy, the list the caller passed in is another object
AppendFeedback(msgs, cur_msgs, m) ==
    [messages |-> msgs, current_messages |-> Append(cur_msgs, m)]

\* _log_payload: one line appended to llm_payloads.jsonl
LogEntry(step_name, pk, msgs, resp, retry_count, error) ==
    [step |-> step_name, pk |-> pk, request |-> msgs, response |-> resp,
     retry_count |-> retry_count, error |-> error]

-----------------------------------------------------------------------------
(* the LLMClient under the retry wrapper; llm/providers/mock.py *)

\* an LLMClient of which nothing is known: each call may return any
\* schema-valid value, raise ValidationError or raise another error
AnyProviderOf(errors) == [kind |-> "any", errors |-> errors]

\* the provider of the pipeline runs: one validation error text
AnyProvider == AnyProviderOf({"field required"})

\* MockProvider._extract_step_name: the value after "Step:" in the system
\* message (ClassifierStep._build_prompt ends with that line, the prompt of
\* SummarizerStep has none), else "unknown_step"
ExtractStepName(step) ==
    IF step.kind = "classifier" THEN step.name ELSE "unknown_step"

MockKeys == {ExtractStepName(Steps[i]) : i \in DOMAIN Steps}

\* MockProvider.__init__: no failure counted yet for any step name
MockProvider(default_response, fail_validation_times) ==
    [kind |-> "mock",
     default_response |-> default_response,
     fail_validation_times |-> fail_validation_times,
     failure_count |-> [k \in MockKeys |-> 0]]

\* the default_response of tests/test_integration.py: one dict serving both models
DefaultResponse == [category |-> "Emergency", text |-> <<"chest", "pain">>, word_count |-> 5]

\* response_model.model_validate(response_data): the fields of the model
ModelValidate(kind, data) ==
    IF kind = "classifier" THEN [category |-> data.category]
    ELSE [text |-> data.text, word_count |-> data.word_count]

Completion(outcome, resp, error, p) ==
    [outcome |-> outcome, response |-> resp, error |-> error, provider |-> p]

\* MockProvider.complete (lines 66-94): a failure counter per extracted step
\* name; invalid data while it is below fail_validation_times, then the
\* configured response, or ValueError when none is configured
MockComplete(p, step) ==
    LET step_name == ExtractStepName(step)
    IN IF p.failure_count[step_name] < p.fail_validation_times
       THEN Completion("invalid", NoneVal, "field required",
                       [p EXCEPT !.failure_count[step_name] = @ + 1])
       ELSE IF p.default_response = NoneVal
       THEN Completion("error", NoneVal, "ValueError", p)
       ELSE Completion("valid", ModelValidate(step.kind, p.default_response), "", p)

\* self.client.complete(current_messages, response_model): what one call may do
Complete(p, step) ==
    IF p.kind = "mock"
    THEN {MockComplete(p, step)}
    ELSE {Completion("valid", r, "", p) : r \in Responses(step.kind)}
         \cup {Completion("invalid", NoneVal, e, p) : e \in p.errors}
         \cup {Completion("error", NoneVal, "APIError", p)}

-----------------------------------------------------------------------------
(* core/pipeline.py *)

ErrorModes == {"fail", "skip", "dead_letter"}

DeadLetterPath == Str("output/dead_letter.jsonl")

PipelineResult(s, f, t, d, path) ==
    [success_count |-> s, failure_count |-> f, total_count |-> t,
     duration_seconds |-> d, dead_letter_path |-> path]

NoResult == [t |-> "None"]

\* a result that always names the dead letter file
RunResultAlwaysPath == PipelineResult(success_count, failure_count, total_count, 1,
                                      DeadLetterPath)

\* "duration_seconds = time.time() - start_time" of a run that entered the
\* loop: some positive reading of the clock
Elapsed == 1

\* run(), lines 232-238: the result built from the counters
RunResult == PipelineResult(success_count, failure_count, total_count, Elapsed,
                            IF failure_count > 0 THEN DeadLetterPath ELSE NoneVal)

\* json.dumps accepts str, numbers, lists and dicts; a datetime raises TypeError
JsonSerializable(raw) == \A k \in DOMAIN raw : raw[k].t # "datetime"

\* a dead letter writer that looks at the wrapper only, never at the cause
RetryAttemptsOuter(error) ==
    IF error.type = "LLMValidationError" THEN error.retry_count ELSE 0

\* _write_dead_letter, lines 400-407
RetryAttempts(error) ==
    LET actual_error == IF error.type = "StepExecutionError"
                        THEN error.original_error ELSE error
    IN IF actual_error.type = "LLMValidationError" THEN actual_error.retry_count ELSE 0

\* _write_dead_letter, lines 410-420: the record written as one line
DeadLetterRecord(st, step_name, error) ==
    [pk |-> st.pk,
     step_name |-> step_name,
     error_type |-> error.type,
     error_message |-> error,
     raw_data |-> st.raw,
     processed_state |-> st.processed,
     steps_completed |-> st.log,
     timestamp |-> Now,
     retry_attempts |-> RetryAttempts(error)]

\* a handler that never reads the step name off the error
ErrorStepNameUnknown(error) == "unknown"

\* _handle_error, lines 351-356
ErrorStepName(error) ==
    IF error.type = "StepExecutionError" THEN error.step_name ELSE "unknown"

\* what "except Exception as e" of run() (line 195) caught for a row
Failure(pk, step_name) == [pk |-> pk, step_name |-> step_name]

\* the positions inside "for state in self.source" (lines 183-213)
LoopPcs == {"fetch", "step", "attempt", "rule", "sink", "succ", "handle", "failinc", "progress"}

\* the locals of run() and the files before the run
PipeStart ==
    /\ pc = "start"
    /\ failures = <<>>
    /\ cur = 0
    /\ state = NoState
    /\ stepIdx = 0
    /\ success_count = 0
    /\ failure_count = 0
    /\ total_count = 0
    /\ pendingError = NoError
    /\ raisedError = NoError
    /\ result = NoResult
    /\ interruptedAt = ""
    /\ messages = <<>>
    /\ current_messages = <<>>
    /\ accumulated_errors = <<>>
    /\ attempt = 0
    /\ calls = 0
    /\ response = NoneVal
    /\ payload_log = <<>>
    /\ sink = <<>>
    /\ dead_letter = <<>>

\* Pipeline.__init__ and the call run(dry_run): any policy, any provider
PipeInit ==
    /\ on_row_error \in ErrorModes
    /\ max_retries \in 0..MaxRetriesBound
    /\ source_kind \in {"csv", "sql"}
    /\ num_rows = NumRows
    /\ dry_run \in BOOLEAN
    /\ provider = AnyProvider
    /\ PipeStart

clientVars == <<messages, current_messages, accumulated_errors, attempt, calls, response>>
countVars == <<success_count, failure_count, total_count>>
configVars == <<on_row_error, max_retries, source_kind, num_rows, dry_run>>
outVars == <<payload_log, sink, dead_letter>>

\* a run that ignores the flag and enters the row loop
DryRunProcesses ==
    /\ pc = "start"
    /\ dry_run
    /\ pc' = "fetch"
    /\ UNCHANGED <<gsVars, clfVars, sinkVars, fnVars, configVars, cur, state, stepIdx, countVars, pendingError,
                   raisedError, result, interruptedAt, clientVars, outVars>>
    /\ UNCHANGED <<provider, failures>>

\* run(dry_run=True): _run_dry_run asks the source for its count (CSVSource
\* counts the lines of the file, SQLServerSource answers None), logs the
\* configuration and returns zero counts; no row is produced
DryRun ==
    /\ pc = "start"
    /\ dry_run
    /\ pc' = "returned"
    /\ result' = PipelineResult(0, 0, 0, 0, NoneVal)
    /\ UNCHANGED <<gsVars, clfVars, sinkVars, fnVars, configVars, cur, state, stepIdx, countVars, pendingError,
                   raisedError, interruptedAt, clientVars, outVars>>
    /\ UNCHANGED <<provider, failures>>

\* run(), lines 170-182: counters zeroed, the row loop is entered
StartRun ==
    /\ pc = "start"
    /\ ~dry_run
    /\ pc' = "fetch"
    /\ success_count' = 0
    /\ failure_count' = 0
    /\ total_count' = 0
    /\ UNCHANGED <<gsVars, clfVars, sinkVars, fnVars, configVars, cur, state, stepIdx, pendingError, raisedError,
                   result, interruptedAt, clientVars, outVars>>
    /\ UNCHANGED <<provider, failures>>

\* "for state in self.source: total_count += 1", then _process_row is entered
FetchRow ==
    /\ pc = "fetch"
    /\ cur < num_rows
    /\ cur' = cur + 1
    /\ state' = SourceRow(source_kind, cur + 1)
    /\ total_count' = total_count + 1
    /\ stepIdx' = 1
    /\ pc' = "step"
    /\ UNCHANGED <<gsVars, clfVars, sinkVars, fnVars, configVars, success_count, failure_count, pendingError,
                   raisedError, result, interruptedAt, clientVars, outVars>>
    /\ UNCHANGED <<provider, failures>>

\* a run that books the failure of the source as a failed record
SourceFailsCounted ==
    /\ pc = "fetch"
    /\ cur < num_rows
    /\ pc' = "raised"
    /\ raisedError' = OtherError("SourceError")
    /\ failure_count' = failure_count + 1
    /\ UNCHANGED <<gsVars, clfVars, sinkVars, fnVars, configVars, cur, state, stepIdx, success_count,
                   total_count, pendingError, result, interruptedAt, clientVars, outVars>>
    /\ UNCHANGED <<provider, failures>>

\* the source iterator raises SourceError while producing the next row; no
\* handler of run() catches it
SourceFails ==
    /\ pc = "fetch"
    /\ cur < num_rows
    /\ pc' = "raised"
    /\ raisedError' = OtherError("SourceError")
    /\ UNCHANGED <<gsVars, clfVars, sinkVars, fnVars, configVars, cur, state, stepIdx, countVars, pendingError,
                   result, interruptedAt, clientVars, outVars>>
    /\ UNCHANGED <<provider, failures>>

\* the source is exhausted: the loop ends and run() returns (lines 222-238)
SourceExhausted ==
    /\ pc = "fetch"
    /\ cur = num_rows
    /\ pc' = "returned"
    /\ result' = RunResult
    /\ UNCHANGED <<gsVars, clfVars, sinkVars, fnVars, configVars, cur, state, stepIdx, countVars, pendingError,
                   raisedError, interruptedAt, clientVars, outVars>>
    /\ UNCHANGED <<provider, failures>>

\* a step that goes on with the conversation and the attempt counter the
\* call before it left behind
BeginStepCarriesOver ==
    /\ pc = "step"
    /\ HasInputs(state)
    /\ messages' = BuildPrompt(Steps[stepIdx], state.pk)
    /\ current_messages' = IF current_messages = <<>> THEN messages' ELSE current_messages
    /\ accumulated_errors' = <<>>
    /\ attempt' = attempt
    /\ calls' = 0
    /\ response' = NoneVal
    /\ pc' = "attempt"
    /\ UNCHANGED <<gsVars, clfVars, sinkVars, fnVars, configVars, cur, state, stepIdx, countVars, pendingError,
                   raisedError, result, interruptedAt, outVars>>
    /\ UNCHANGED <<provider, failures>>

\* step.run up to the call of complete_with_validation: input map, prompt,
\* "current_messages = messages.copy(); accumulated_errors = []"
BeginStep ==
    /\ pc = "step"
    /\ HasInputs(state)
    /\ messages' = BuildPrompt(Steps[stepIdx], state.pk)
    /\ current_messages' = messages'
    /\ accumulated_errors' = <<>>
    /\ attempt' = 0
    /\ calls' = 0
    /\ response' = NoneVal
    /\ pc' = "attempt"
    /\ UNCHANGED <<gsVars, clfVars, sinkVars, fnVars, configVars, cur, state, stepIdx, countVars, pendingError,
                   raisedError, result, interruptedAt, outVars>>
    /\ UNCHANGED <<provider, failures>>

\* step.run, step 1: an extractor of input_map raises (KeyError for a missing
\* key) before execute() is called; _process_row wraps it (lines 311-317)
InputMapFails ==
    /\ pc = "step"
    /\ ~HasInputs(state)
    /\ pendingError' = StepExecutionError(Steps[stepIdx].name, state.pk, OtherError("KeyError"))
    /\ failures' = Append(failures, Failure(state.pk, Steps[stepIdx].name))
    /\ messages' = <<>>
    /\ current_messages' = <<>>
    /\ accumulated_errors' = <<>>
    /\ attempt' = 0
    /\ calls' = 0
    /\ response' = NoneVal
    /\ pc' = "handle"
    /\ UNCHANGED <<gsVars, clfVars, sinkVars, fnVars, configVars, cur, state, stepIdx, countVars,
                   raisedError, result, interruptedAt, outVars>>
    /\ UNCHANGED provider

\* "for attempt in range(self.max_retries + 1)" has nothing (left) to run:
\* the function ends without a return statement, the caller receives None
LoopFallsThrough ==
    /\ pc = "attempt"
    /\ ~InRange(attempt)
    /\ response' = NoneVal
    /\ pc' = "rule"
    /\ UNCHANGED <<gsVars, clfVars, sinkVars, fnVars, configVars, cur, state, stepIdx, countVars, pendingError,
                   raisedError, result, interruptedAt, messages, current_messages,
                   accumulated_errors, attempt, calls, outVars>>
    /\ UNCHANGED <<provider, failures>>

\* one loop iteration, client.complete returns a schema-valid value:
\* the attempt is logged and the value returned to execute()
AttemptValid ==
    /\ pc = "attempt"
    /\ InRange(attempt)
    /\ \E c \in Complete(provider, Steps[stepIdx]) :
        /\ c.outcome = "valid"
        /\ provider' = c.provider
        /\ response' = c.response
        /\ payload_log' = Append(payload_log,
              LogEntry(Steps[stepIdx].name, state.pk, current_messages, c.response,
                       attempt, ""))
    /\ calls' = calls + 1
    /\ pc' = "rule"
    /\ UNCHANGED <<gsVars, clfVars, sinkVars, fnVars, configVars, cur, state, stepIdx, countVars, pendingError,
                   raisedError, result, interruptedAt, messages, current_messages,
                   accumulated_errors, attempt, sink, dead_letter>>
    /\ UNCHANGED failures

\* one loop iteration, client.complete raises ValidationError (lines 117-147)
AttemptInvalid ==
    /\ pc = "attempt"
    /\ InRange(attempt)
    /\ \E c \in Complete(provider, Steps[stepIdx]) :
        LET error_msg == c.error
        IN
        /\ c.outcome = "invalid"
        /\ provider' = c.provider
        /\ accumulated_errors' = Append(accumulated_errors, error_msg)
        /\ payload_log' = Append(payload_log,
              LogEntry(Steps[stepIdx].name, state.pk, current_messages, NoneVal,
                       attempt, error_msg))
        /\ IF RetriesLeft(attempt)
           THEN /\ LET lists == AppendFeedback(messages, current_messages,
                                                RetryMessage(error_msg))
                   IN /\ messages' = lists.messages
                      /\ current_messages' = lists.current_messages
                /\ attempt' = attempt + 1
                /\ pc' = "attempt"
                /\ UNCHANGED <<pendingError, failures>>
           ELSE \* LLMValidationError leaves execute() and step.run(); _process_row
                \* wraps it (lines 311-317) and run() catches it (line 195)
                /\ pendingError' = StepExecutionError(Steps[stepIdx].name, state.pk,
                      LLMValidationError(Steps[stepIdx].name, state.pk,
                                         accumulated_errors', ExhaustedRetryCount))
                /\ failures' = Append(failures, Failure(state.pk, Steps[stepIdx].name))
                /\ pc' = "handle"
                /\ UNCHANGED <<messages, current_messages, attempt>>
    /\ calls' = calls + 1
    /\ UNCHANGED <<gsVars, clfVars, sinkVars, fnVars, configVars, cur, state, stepIdx, countVars, raisedError, result,
                   interruptedAt, response, sink, dead_letter>>

\* a client that treats every error of the provider as a validation failure:
\* feedback and another attempt, LLMValidationError when out of retries
AttemptErrorRetried ==
    /\ pc = "attempt"
    /\ InRange(attempt)
    /\ \E c \in Complete(provider, Steps[stepIdx]) :
        /\ c.outcome = "error"
        /\ provider' = c.provider
        /\ accumulated_errors' = Append(accumulated_errors, c.error)
        /\ payload_log' = Append(payload_log,
              LogEntry(Steps[stepIdx].name, state.pk, current_messages, NoneVal,
                       attempt, c.error))
        /\ IF RetriesLeft(attempt)
           THEN /\ current_messages' = Append(current_messages, RetryMessage(c.error))
                /\ attempt' = attempt + 1
                /\ pc' = "attempt"
                /\ UNCHANGED <<pendingError, failures>>
           ELSE /\ pendingError' = StepExecutionError(Steps[stepIdx].name, state.pk,
                      LLMValidationError(Steps[stepIdx].name, state.pk,
                                         accumulated_errors', ExhaustedRetryCount))
                /\ failures' = Append(failures, Failure(state.pk, Steps[stepIdx].name))
                /\ pc' = "handle"
                /\ UNCHANGED <<current_messages, attempt>>
    /\ calls' = calls + 1
    /\ UNCHANGED <<gsVars, clfVars, sinkVars, fnVars, configVars, cur, state, stepIdx, countVars, raisedError, result,
                   interruptedAt, messages, response, sink, dead_letter>>

\* a step that logs its name although the completion failed
AttemptErrorLogsStep ==
    /\ pc = "attempt"
    /\ InRange(attempt)
    /\ \E c \in Complete(provider, Steps[stepIdx]) :
        /\ c.outcome = "error"
        /\ provider' = c.provider
        /\ payload_log' = Append(payload_log,
              LogEntry(Steps[stepIdx].name, state.pk, current_messages, NoneVal,
                       attempt, c.error))
        /\ pendingError' = StepExecutionError(Steps[stepIdx].name, state.pk,
                                              OtherError(c.error))
    /\ state' = [state EXCEPT !.log = Append(@, Steps[stepIdx].name)]
    /\ calls' = calls + 1
    /\ failures' = Append(failures, Failure(state.pk, Steps[stepIdx].name))
    /\ pc' = "handle"
    /\ UNCHANGED <<gsVars, clfVars, sinkVars, fnVars, configVars, cur, stepIdx, countVars, raisedError, result,
                   interruptedAt, messages, current_messages, accumulated_errors,
                   attempt, response, sink, dead_letter>>

\* one loop iteration, client.complete raises another error (lines 149-165):
\* logged, re-raised, wrapped by _process_row
AttemptError ==
    /\ pc = "attempt"
    /\ InRange(attempt)
    /\ \E c \in Complete(provider, Steps[stepIdx]) :
        /\ c.outcome = "error"
        /\ provider' = c.provider
        /\ payload_log' = Append(payload_log,
              LogEntry(Steps[stepIdx].name, state.pk, current_messages, NoneVal,
                       attempt, c.error))
        /\ pendingError' = StepExecutionError(Steps[stepIdx].name, state.pk,
                                              OtherError(c.error))
    /\ calls' = calls + 1
    /\ failures' = Append(failures, Failure(state.pk, Steps[stepIdx].name))
    /\ pc' = "handle"
    /\ UNCHANGED <<gsVars, clfVars, sinkVars, fnVars, configVars, cur, state, stepIdx, countVars, raisedError, result,
                   interruptedAt, messages, current_messages, accumulated_errors,
                   attempt, response, sink, dead_letter>>

\* a step that feeds a business rule failure back into the retry loop
RuleCheckRetries ==
    /\ pc = "rule"
    /\ IF BusinessRuleOk(Steps[stepIdx].kind, response)
       THEN /\ state' = StoreResult(state, Steps[stepIdx], response)
            /\ stepIdx' = stepIdx + 1
            /\ pc' = IF stepIdx = Len(Steps) THEN "sink" ELSE "step"
            /\ UNCHANGED <<pendingError, failures, current_messages, attempt>>
       ELSE IF RetriesLeft(attempt)
       THEN /\ current_messages' = Append(current_messages, RetryMessage("ValueError"))
            /\ attempt' = attempt + 1
            /\ pc' = "attempt"
            /\ UNCHANGED <<pendingError, failures, state, stepIdx>>
       ELSE /\ pendingError' = StepExecutionError(Steps[stepIdx].name, state.pk,
                                                  OtherError("ValueError"))
            /\ failures' = Append(failures, Failure(state.pk, Steps[stepIdx].name))
            /\ pc' = "handle"
            /\ UNCHANGED <<state, stepIdx, current_messages, attempt>>
    /\ UNCHANGED <<gsVars, clfVars, sinkVars, fnVars, configVars, cur, countVars, raisedError, result, interruptedAt,
                   messages, accumulated_errors, calls, response, outVars>>
    /\ UNCHANGED provider

\* a _process_row that notes the failure of a step and goes on with the next
RuleCheckContinues ==
    /\ pc = "rule"
    /\ IF BusinessRuleOk(Steps[stepIdx].kind, response)
       THEN /\ state' = StoreResult(state, Steps[stepIdx], response)
            /\ UNCHANGED <<pendingError, failures>>
       ELSE /\ pendingError' = StepExecutionError(Steps[stepIdx].name, state.pk,
                                                  OtherError("ValueError"))
            /\ failures' = Append(failures, Failure(state.pk, Steps[stepIdx].name))
            /\ UNCHANGED state
    /\ stepIdx' = stepIdx + 1
    /\ pc' = IF stepIdx = Len(Steps) THEN "sink" ELSE "step"
    /\ UNCHANGED <<gsVars, clfVars, sinkVars, fnVars, configVars, cur, countVars, raisedError, result, interruptedAt,
                   clientVars, outVars>>
    /\ UNCHANGED provider

\* execute() after the client returned: the business rule check, then
\* step.run stores the output and logs the step; _process_row takes the next step
RuleCheck ==
    /\ pc = "rule"
    /\ IF response # NoneVal /\ BusinessRuleOk(Steps[stepIdx].kind, response)
       THEN /\ state' = StoreResult(state, Steps[stepIdx], response)
            /\ stepIdx' = stepIdx + 1
            /\ pc' = IF stepIdx = Len(Steps) THEN "sink" ELSE "step"
            /\ UNCHANGED <<pendingError, failures>>
       ELSE \* ValueError of the check; AttributeError when it is handed None
            /\ pendingError' = StepExecutionError(Steps[stepIdx].name, state.pk,
                    OtherError(IF response = NoneVal THEN "AttributeError"
                               ELSE "ValueError"))
            /\ failures' = Append(failures, Failure(state.pk, Steps[stepIdx].name))
            /\ pc' = "handle"
            /\ UNCHANGED <<state, stepIdx>>
    /\ UNCHANGED <<gsVars, clfVars, sinkVars, fnVars, configVars, cur, countVars, raisedError, result, interruptedAt,
                   clientVars, outVars>>
    /\ UNCHANGED provider

\* a sink that puts the newest row first
SinkWritePrepends ==
    /\ pc = "sink"
    /\ state' = [state EXCEPT !.completed_at = Now]
    /\ sink' = <<state'.pk>> \o sink
    /\ pc' = "succ"
    /\ UNCHANGED <<gsVars, clfVars, sinkVars, fnVars, configVars, cur, stepIdx, countVars, pendingError, raisedError,
                   result, interruptedAt, clientVars, payload_log, dead_letter>>
    /\ UNCHANGED <<provider, failures>>

\* _process_row, lines 319-325: completed_at is stamped, the sink accepts the row
SinkWrite ==
    /\ pc = "sink"
    /\ state' = [state EXCEPT !.completed_at = Now]
    /\ sink' = Append(sink, state'.pk)
    /\ pc' = "succ"
    /\ UNCHANGED <<gsVars, clfVars, sinkVars, fnVars, configVars, cur, stepIdx, countVars, pendingError, raisedError,
                   result, interruptedAt, clientVars, payload_log, dead_letter>>
    /\ UNCHANGED <<provider, failures>>

\* _process_row, lines 319-337: completed_at is stamped, sink.write raises
\* SinkError, which is wrapped under the step name "sink"
SinkFails ==
    /\ pc = "sink"
    /\ state' = [state EXCEPT !.completed_at = Now]
    /\ pendingError' = StepExecutionError("sink", state.pk, OtherError("SinkError"))
    /\ failures' = Append(failures, Failure(state.pk, "sink"))
    /\ pc' = "handle"
    /\ UNCHANGED <<gsVars, clfVars, sinkVars, fnVars, configVars, cur, stepIdx, countVars, raisedError, result,
                   interruptedAt, clientVars, outVars>>
    /\ UNCHANGED provider

\* a run that forgets to count the row it wrote
CountSuccessForgotten ==
    /\ pc = "succ"
    /\ pc' = "progress"
    /\ UNCHANGED <<gsVars, clfVars, sinkVars, fnVars, configVars, cur, state, stepIdx, countVars,
                   pendingError, raisedError, result, interruptedAt, clientVars, outVars>>
    /\ UNCHANGED <<provider, failures>>

\* run(), line 189
CountSuccess ==
    /\ pc = "succ"
    /\ success_count' = success_count + 1
    /\ pc' = "progress"
    /\ UNCHANGED <<gsVars, clfVars, sinkVars, fnVars, configVars, cur, state, stepIdx, failure_count, total_count,
                   pendingError, raisedError, result, interruptedAt, clientVars, outVars>>
    /\ UNCHANGED <<provider, failures>>

\* an error handler that logs and continues under every policy
HandleErrorContinues ==
    /\ pc = "handle"
    /\ pc' = "failinc"
    /\ UNCHANGED <<gsVars, clfVars, sinkVars, fnVars, configVars, cur, state, stepIdx, countVars,
                   pendingError, raisedError, result, interruptedAt, clientVars, outVars>>
    /\ UNCHANGED <<provider, failures>>

\* a handler that writes the dead letter line under skip as well
HandleErrorSkipWrites ==
    /\ pc = "handle"
    /\ CASE on_row_error = "fail" ->
              /\ pc' = "raised"
              /\ raisedError' = pendingError
              /\ UNCHANGED dead_letter
         [] OTHER ->
              /\ dead_letter' = Append(dead_letter,
                    DeadLetterRecord(state, ErrorStepName(pendingError), pendingError))
              /\ pc' = "failinc"
              /\ UNCHANGED raisedError
    /\ UNCHANGED <<gsVars, clfVars, sinkVars, fnVars, configVars, cur, state, stepIdx, countVars, pendingError, result,
                   interruptedAt, clientVars, payload_log, sink>>
    /\ UNCHANGED <<provider, failures>>

\* a handler that keeps dead letters in memory, to be written at the end
HandleErrorBuffered ==
    /\ pc = "handle"
    /\ CASE on_row_error = "fail" ->
              /\ pc' = "raised"
              /\ raisedError' = pendingError
         [] OTHER ->
              /\ pc' = "failinc"
              /\ UNCHANGED raisedError
    /\ UNCHANGED <<gsVars, clfVars, sinkVars, fnVars, configVars, cur, state, stepIdx, countVars, pendingError, result,
                   interruptedAt, clientVars, outVars>>
    /\ UNCHANGED <<provider, failures>>

\* _handle_error (lines 339-377) with _write_dead_letter (lines 379-427)
HandleError ==
    /\ pc = "handle"
    /\ CASE on_row_error = "fail" ->
              \* bare raise: the error leaves run()
              /\ pc' = "raised"
              /\ raisedError' = pendingError
              /\ UNCHANGED dead_letter
         [] on_row_error = "skip" ->
              /\ pc' = "failinc"
              /\ UNCHANGED <<raisedError, dead_letter>>
         [] on_row_error = "dead_letter" ->
              IF JsonSerializable(state.raw)
              THEN /\ dead_letter' = Append(dead_letter,
                         DeadLetterRecord(state, ErrorStepName(pendingError), pendingError))
                   /\ pc' = "failinc"
                   /\ UNCHANGED raisedError
              ELSE \* json.dumps raises TypeError inside the handler: nothing is
                   \* written and the TypeError leaves run()
                   /\ pc' = "raised"
                   /\ raisedError' = OtherError("TypeError")
                   /\ UNCHANGED dead_letter
    /\ UNCHANGED <<gsVars, clfVars, sinkVars, fnVars, configVars, cur, state, stepIdx, countVars, pendingError, result,
                   interruptedAt, clientVars, payload_log, sink>>
    /\ UNCHANGED <<provider, failures>>

\* a run that counts the failed row as a success too
CountFailureBoth ==
    /\ pc = "failinc"
    /\ failure_count' = failure_count + 1
    /\ success_count' = success_count + 1
    /\ pendingError' = NoError
    /\ pc' = "progress"
    /\ UNCHANGED <<gsVars, clfVars, sinkVars, fnVars, configVars, cur, state, stepIdx, total_count,
                   raisedError, result, interruptedAt, clientVars, outVars>>
    /\ UNCHANGED <<provider, failures>>

\* run(), line 198
CountFailure ==
    /\ pc = "failinc"
    /\ failure_count' = failure_count + 1
    /\ pendingError' = NoError
    /\ pc' = "progress"
    /\ UNCHANGED <<gsVars, clfVars, sinkVars, fnVars, configVars, cur, state, stepIdx, success_count, total_count,
                   raisedError, result, interruptedAt, clientVars, outVars>>
    /\ UNCHANGED <<provider, failures>>

\* run(), lines 200-213: progress logging, then the next iteration
ReportProgress ==
    /\ pc = "progress"
    /\ pc' = "fetch"
    /\ UNCHANGED <<gsVars, clfVars, sinkVars, fnVars, configVars, cur, state, stepIdx, countVars, pendingError,
                   raisedError, result, interruptedAt, clientVars, outVars>>
    /\ UNCHANGED <<provider, failures>>

\* a run that treats the interrupt as a failure of the row in flight
InterruptAsFailure ==
    /\ pc \in LoopPcs
    /\ interruptedAt' = pc
    /\ pc' = "returned"
    /\ failure_count' = failure_count + 1
    /\ result' = PipelineResult(success_count, failure_count', total_count, Elapsed,
                                DeadLetterPath)
    /\ UNCHANGED <<gsVars, clfVars, sinkVars, fnVars, configVars, cur, state, stepIdx, success_count,
                   total_count, pendingError, raisedError, clientVars, outVars>>
    /\ UNCHANGED <<provider, failures>>

\* KeyboardInterrupt is delivered at the current position of the row loop.  It
\* is a BaseException: no "except Exception" on the way catches it; the handler
\* at line 215 swallows it and run() returns the counters as they stand.
\* At an attempt it is delivered before client.complete is called, or inside
\* the call ("complete"): the attempt was made and _log_payload is not reached.
Interrupt ==
    /\ pc \in LoopPcs
    /\ \E inside \in (IF pc = "attempt" /\ InRange(attempt) THEN BOOLEAN ELSE {FALSE}) :
          /\ interruptedAt' = IF inside THEN "complete" ELSE pc
          /\ calls' = IF inside THEN calls + 1 ELSE calls
    /\ pc' = "returned"
    /\ result' = RunResult
    /\ UNCHANGED <<gsVars, clfVars, sinkVars, fnVars, configVars, cur, state, stepIdx, countVars, pendingError,
                   raisedError, messages, current_messages, accumulated_errors, attempt,
                   response, outVars>>
    /\ UNCHANGED <<provider, failures>>

PipeNext ==
    \/ DryRun
    \/ StartRun
    \/ FetchRow
    \/ SourceFails
    \/ SourceExhausted
    \/ BeginStep
    \/ AttemptValid
    \/ AttemptInvalid
    \/ AttemptError
    \/ RuleCheck
    \/ SinkWrite
    \/ SinkFails
    \/ CountSuccess
    \/ HandleError
    \/ CountFailure
    \/ ReportProgress
    \/ Interrupt

\* the objects of the other specifications, parked
-----------------------------------------------------------------------------
(* sinks/csv_sink.py and sinks/sql_server.py: writers of one output file,  *)
(* batch writes                                                            *)

MaxBatch == 2

\* the threads that write to the same file_path, and the CSVSink objects
\* they may hold
Writers == {1, 2}
SinkObjects == {1, 2}

\* threading.Lock(): not held
Free == 0

\* writer.writeheader() and writer.writerow(row): one line each
Header(w) == [line |-> "header", writer |-> w]
RowLine(w, i) == [line |-> "row", writer |-> w, i |-> i]

\* a file an earlier run left behind
ExistingFile == <<Header(0), RowLine(0, 1)>>

NoCall == [op |-> "", n |-> 0]

\* leaving the "with self._lock" block
Release(w) == [lock EXCEPT ![sinkOf[w]] = Free]

\* CSVSink.__init__ gives every sink object a lock of its own (line 76)
CsvInit ==
    /\ sinkOf \in [Writers -> SinkObjects]
    /\ lock = [o \in SinkObjects |-> Free]
    /\ wpc = [w \in Writers |-> "idle"]
    /\ call = [w \in Writers |-> NoCall]
    /\ rows = [w \in Writers |-> <<>>]
    /\ file_exists = [w \in Writers |-> FALSE]
    /\ buffer = [w \in Writers |-> <<>>]
    /\ pos = [w \in Writers |-> 0]
    /\ wErr = [w \in Writers |-> NoError]
    /\ file \in {<<>>, ExistingFile}

SqlInit ==
    /\ sqlPc = "idle"
    /\ sqlN = 0
    /\ sqlPos = 0
    /\ txn = {}
    /\ table = {}
    /\ sqlErr = NoError

\* write(state) or write_batch(states) is called; "if not states: return"
CsvCall ==
    /\ \E w \in Writers, op \in {"write", "write_batch"}, n \in 0..MaxBatch :
          /\ wpc[w] = "idle"
          /\ op = "write" => n = 1
          /\ call' = [call EXCEPT ![w] = [op |-> op, n |-> n]]
          /\ wpc' = [wpc EXCEPT ![w] = IF n = 0 THEN "returned" ELSE "lock"]
    /\ UNCHANGED <<sinkOf, lock, rows, file_exists, buffer, pos, wErr, file>>
    /\ UNCHANGED <<sqlVars, pipeVars, gsVars, clfVars, fnVars>>

\* "with self._lock" (lines 102 and 152): the lock of this sink object
CsvAcquire ==
    /\ \E w \in Writers :
          /\ wpc[w] = "lock"
          /\ lock[sinkOf[w]] = Free
          /\ lock' = [lock EXCEPT ![sinkOf[w]] = w]
          /\ wpc' = [wpc EXCEPT ![w] = "extract"]
    /\ UNCHANGED <<sinkOf, call, rows, file_exists, buffer, pos, wErr, file>>
    /\ UNCHANGED <<sqlVars, pipeVars, gsVars, clfVars, fnVars>>

\* _extract_row for the state (line 105) or for every state (lines 155-158)
CsvExtract ==
    /\ \E w \in Writers :
          /\ wpc[w] = "extract"
          /\ rows' = [rows EXCEPT ![w] = [i \in 1..call[w].n |-> RowLine(w, i)]]
          /\ wpc' = [wpc EXCEPT ![w] = "check"]
    /\ UNCHANGED <<sinkOf, lock, call, file_exists, buffer, pos, wErr, file>>
    /\ UNCHANGED <<sqlVars, pipeVars, gsVars, clfVars, fnVars>>

\* an extractor raises: SinkError leaves the call before the file is touched
CsvExtractFails ==
    /\ \E w \in Writers :
          /\ wpc[w] = "extract"
          /\ wErr' = [wErr EXCEPT ![w] = OtherError("SinkError")]
          /\ lock' = Release(w)
          /\ wpc' = [wpc EXCEPT ![w] = "raised"]
    /\ UNCHANGED <<sinkOf, call, rows, file_exists, buffer, pos, file>>
    /\ UNCHANGED <<sqlVars, pipeVars, gsVars, clfVars, fnVars>>

\* "file_exists = self.file_path.exists() and self.file_path.stat().st_size > 0"
CsvCheckExists ==
    /\ \E w \in Writers :
          /\ wpc[w] = "check"
          /\ file_exists' = [file_exists EXCEPT ![w] = Len(file) > 0]
          /\ wpc' = [wpc EXCEPT ![w] = "open"]
    /\ UNCHANGED <<sinkOf, lock, call, rows, buffer, pos, wErr, file>>
    /\ UNCHANGED <<sqlVars, pipeVars, gsVars, clfVars, fnVars>>

\* the file is opened for append; "if not file_exists: writer.writeheader()"
CsvOpen ==
    /\ \E w \in Writers :
          /\ wpc[w] = "open"
          /\ buffer' = [buffer EXCEPT ![w] = IF file_exists[w] THEN <<>> ELSE <<Header(w)>>]
          /\ pos' = [pos EXCEPT ![w] = 0]
          /\ wpc' = [wpc EXCEPT ![w] = "rows"]
    /\ UNCHANGED <<sinkOf, lock, call, rows, file_exists, wErr, file>>
    /\ UNCHANGED <<sqlVars, pipeVars, gsVars, clfVars, fnVars>>

\* open() raises OSError, wrapped as SinkError
CsvOpenFails ==
    /\ \E w \in Writers :
          /\ wpc[w] = "open"
          /\ wErr' = [wErr EXCEPT ![w] = OtherError("SinkError")]
          /\ lock' = Release(w)
          /\ wpc' = [wpc EXCEPT ![w] = "raised"]
    /\ UNCHANGED <<sinkOf, call, rows, file_exists, buffer, pos, file>>
    /\ UNCHANGED <<sqlVars, pipeVars, gsVars, clfVars, fnVars>>

\* writer.writerow(row), or the next row of writer.writerows(rows): the line
\* goes to the buffer of the file object
CsvWriteRow ==
    /\ \E w \in Writers :
          /\ wpc[w] = "rows"
          /\ pos[w] < call[w].n
          /\ buffer' = [buffer EXCEPT ![w] = Append(@, rows[w][pos[w] + 1])]
          /\ pos' = [pos EXCEPT ![w] = @ + 1]
    /\ UNCHANGED <<sinkOf, lock, wpc, call, rows, file_exists, wErr, file>>
    /\ UNCHANGED <<sqlVars, pipeVars, gsVars, clfVars, fnVars>>

\* the buffer of the file object fills up and is appended to the file
CsvFlush ==
    /\ \E w \in Writers :
          /\ wpc[w] = "rows"
          /\ buffer[w] # <<>>
          /\ file' = file \o buffer[w]
          /\ buffer' = [buffer EXCEPT ![w] = <<>>]
    /\ UNCHANGED <<sinkOf, lock, wpc, call, rows, file_exists, pos, wErr>>
    /\ UNCHANGED <<sqlVars, pipeVars, gsVars, clfVars, fnVars>>

\* writing a row raises: OSError is wrapped as SinkError (lines 128, 181),
\* anything else (UnicodeEncodeError for a value utf-8 cannot encode) leaves
\* as it is. Leaving the "with ... open" block closes the file, which flushes
\* what was buffered; after an OSError the flush may fail as well.
CsvWriteFails ==
    /\ \E w \in Writers, e \in {"OSError", "UnicodeEncodeError"}, flushed \in BOOLEAN :
          /\ wpc[w] = "rows"
          /\ pos[w] < call[w].n
          /\ e = "UnicodeEncodeError" => flushed
          /\ file' = IF flushed THEN file \o buffer[w] ELSE file
          /\ buffer' = [buffer EXCEPT ![w] = <<>>]
          /\ wErr' = [wErr EXCEPT ![w] = IF e = "OSError" THEN OtherError("SinkError")
                                         ELSE OtherError(e)]
          /\ lock' = Release(w)
          /\ wpc' = [wpc EXCEPT ![w] = "raised"]
    /\ UNCHANGED <<sinkOf, call, rows, file_exists, pos>>
    /\ UNCHANGED <<sqlVars, pipeVars, gsVars, clfVars, fnVars>>

\* every row is written: the file is closed, the lock released
CsvClose ==
    /\ \E w \in Writers :
          /\ wpc[w] = "rows"
          /\ pos[w] = call[w].n
          /\ file' = file \o buffer[w]
          /\ buffer' = [buffer EXCEPT ![w] = <<>>]
          /\ lock' = Release(w)
          /\ wpc' = [wpc EXCEPT ![w] = "returned"]
    /\ UNCHANGED <<sinkOf, call, rows, file_exists, pos, wErr>>
    /\ UNCHANGED <<sqlVars, pipeVars, gsVars, clfVars, fnVars>>

\* SQLServerSink.write_batch(states); "if not states: return"
SqlCall ==
    /\ sqlPc = "idle"
    /\ \E n \in 0..MaxBatch :
          /\ sqlN' = n
          /\ sqlPc' = IF n = 0 THEN "returned" ELSE "connect"
    /\ UNCHANGED <<sqlPos, txn, table, sqlErr>>
    /\ UNCHANGED <<csvVars, pipeVars, gsVars, clfVars, fnVars>>

\* pyodbc.connect, autocommit off (lines 273-274)
SqlConnect ==
    /\ sqlPc = "connect"
    /\ sqlPc' = "rows"
    /\ sqlPos' = 0
    /\ txn' = {}
    /\ UNCHANGED <<sqlN, table, sqlErr>>
    /\ UNCHANGED <<csvVars, pipeVars, gsVars, clfVars, fnVars>>

\* pyodbc.connect raises: no connection to roll back, SinkError raised
SqlConnectFails ==
    /\ sqlPc = "connect"
    /\ sqlPc' = "raised"
    /\ sqlErr' = OtherError("SinkError")
    /\ UNCHANGED <<sqlN, sqlPos, txn, table>>
    /\ UNCHANGED <<csvVars, pipeVars, gsVars, clfVars, fnVars>>

\* one state of the batch: column map applied, MERGE executed in the
\* open transaction (lines 276-298)
SqlMerge ==
    /\ sqlPc = "rows"
    /\ sqlPos < sqlN
    /\ txn' = txn \cup {sqlPos + 1}
    /\ sqlPos' = sqlPos + 1
    /\ UNCHANGED <<sqlPc, sqlN, table, sqlErr>>
    /\ UNCHANGED <<csvVars, pipeVars, gsVars, clfVars, fnVars>>

\* the column map or the MERGE fails for a state: conn.rollback(), SinkError
\* (lines 303-323)
SqlRowFails ==
    /\ sqlPc = "rows"
    /\ sqlPos < sqlN
    /\ txn' = {}
    /\ sqlErr' = OtherError("SinkError")
    /\ sqlPc' = "raised"
    /\ UNCHANGED <<sqlN, sqlPos, table>>
    /\ UNCHANGED <<csvVars, pipeVars, gsVars, clfVars, fnVars>>

\* conn.commit() (line 301)
SqlCommit ==
    /\ sqlPc = "rows"
    /\ sqlPos = sqlN
    /\ table' = table \cup txn
    /\ txn' = {}
    /\ sqlPc' = "returned"
    /\ UNCHANGED <<sqlN, sqlPos, sqlErr>>
    /\ UNCHANGED <<csvVars, pipeVars, gsVars, clfVars, fnVars>>

\* conn.commit() raises pyodbc.Error: conn.rollback(), SinkError
SqlCommitFails ==
    /\ sqlPc = "rows"
    /\ sqlPos = sqlN
    /\ txn' = {}
    /\ sqlErr' = OtherError("SinkError")
    /\ sqlPc' = "raised"
    /\ UNCHANGED <<sqlN, sqlPos, table>>
    /\ UNCHANGED <<csvVars, pipeVars, gsVars, clfVars, fnVars>>

SinkNext ==
    \/ CsvCall
    \/ CsvAcquire
    \/ CsvExtract
    \/ CsvExtractFails
    \/ CsvCheckExists
    \/ CsvOpen
    \/ CsvOpenFails
    \/ CsvWriteRow
    \/ CsvFlush
    \/ CsvWriteFails
    \/ CsvClose
    \/ SqlCall
    \/ SqlConnect
    \/ SqlConnectFails
    \/ SqlMerge
    \/ SqlRowFails
    \/ SqlCommit
    \/ SqlCommitFails

SinkInit == CsvInit /\ SqlInit

\* no sink in use
SinkIdle ==
    /\ sinkOf = [w \in Writers |-> 1]
    /\ lock = [o \in SinkObjects |-> Free]
    /\ wpc = [w \in Writers |-> "idle"]
    /\ call = [w \in Writers |-> NoCall]
    /\ rows = [w \in Writers |-> <<>>]
    /\ file_exists = [w \in Writers |-> FALSE]
    /\ buffer = [w \in Writers |-> <<>>]
    /\ pos = [w \in Writers |-> 0]
    /\ wErr = [w \in Writers |-> NoError]
    /\ file = <<>>
    /\ SqlInit

-----------------------------------------------------------------------------
(* steps/summarizer.py: the checks on a summary the provider returned      *)

MaxTextLen == 3

\* the characters a text is made of: a lower case letter, an upper case
\* letter and the blank
Chars == {"a", "B", " "}

Texts == UNION {[1..n -> Chars] : n \in 0..MaxTextLen}

\* str.lower()
Lower(t) == [i \in DOMAIN t |-> IF t[i] = "B" THEN "b" ELSE t[i]]

\* str.strip()
RECURSIVE Strip(_)
Strip(t) ==
    IF t = <<>> THEN t
    ELSE IF t[1] = " " THEN Strip(Tail(t))
    ELSE IF t[Len(t)] = " " THEN Strip(SubSeq(t, 1, Len(t) - 1))
    ELSE t

\* str.split(): the runs of non-blank characters
RECURSIVE Split(_)
Split(t) ==
    IF t = <<>> THEN <<>>
    ELSE IF t[1] = " " THEN Split(Tail(t))
    ELSE LET blanks == {i \in DOMAIN t : t[i] = " "}
             end == IF blanks = {} THEN Len(t) + 1
                    ELSE CHOOSE i \in blanks : \A j \in blanks : i <= j
         IN <<SubSeq(t, 1, end - 1)>> \o Split(SubSeq(t, end, Len(t)))

\* "term in text"
Contains(t, term) ==
    \E i \in 0..(Len(t) - Len(term)) : SubSeq(t, i + 1, i + Len(term)) = term

\* ParsedRules: max_words, max_chars (None or a number), required_terms (as
\* _parse_rules takes them from the lower-cased rule)
ParsedRules(max_words, max_chars, required_terms) ==
    [max_words |-> max_words, max_chars |-> max_chars, required_terms |-> required_terms]

RuleInputs ==
    {ParsedRules(w, c, terms) :
        w \in {NoneVal, Given(1), Given(2)},
        c \in {NoneVal, Given(2), Given(3)},
        terms \in {<<>>, <<<<"a">>>>, <<<<"b">>>>, <<<<"a">>, <<"b">>>>}}

\* the word counts the model reports
ReportedCounts == {0, 5}

\* SummaryOutput.validate_text: strip, refuse the empty text
ValidateText(v) ==
    LET s == Strip(v)
    IN IF s = <<>> THEN [text |-> s, err |-> OtherError("ValidationError")]
       ELSE [text |-> s, err |-> NoError]

\* a check that believes the count the model reported
ValidateRulesTrusting(parsed, res) ==
    IF parsed.max_words # NoneVal /\ res.word_count > parsed.max_words.v
    THEN [result |-> NoneVal, err |-> OtherError("ValueError")]
    ELSE IF parsed.max_chars # NoneVal /\ Len(res.text) > parsed.max_chars.v
    THEN [result |-> NoneVal, err |-> OtherError("ValueError")]
    ELSE IF \E k \in DOMAIN parsed.required_terms :
               ~Contains(Lower(res.text), Lower(parsed.required_terms[k]))
    THEN [result |-> NoneVal, err |-> OtherError("ValueError")]
    ELSE [result |-> res, err |-> NoError]

\* SummarizerStep._validate_rules (lines 192-243): the count is taken from the
\* text, then the ceilings and the required terms are checked in this order
ValidateRules(parsed, res) ==
    LET actual_count == Len(Split(res.text))
        actual_chars == Len(res.text)
        text_lower == Lower(res.text)
        missing == {k \in DOMAIN parsed.required_terms :
                       ~Contains(text_lower, Lower(parsed.required_terms[k]))}
    IN IF parsed.max_words # NoneVal /\ actual_count > parsed.max_words.v
       THEN [result |-> NoneVal, err |-> OtherError("ValueError")]
       ELSE IF parsed.max_chars # NoneVal /\ actual_chars > parsed.max_chars.v
       THEN [result |-> NoneVal, err |-> OtherError("ValueError")]
       ELSE IF missing # {}
       THEN [result |-> NoneVal, err |-> OtherError("ValueError")]
       ELSE [result |-> [text |-> res.text, word_count |-> actual_count], err |-> NoError]

SumInit ==
    /\ sumIn \in {[text |-> t, word_count |-> n] : t \in Texts, n \in ReportedCounts}
    /\ parsed_rules \in RuleInputs
    /\ sumOut = NoneVal
    /\ sumErr = NoError
    /\ sumPc = "returned by the provider"

\* the provider's data through SummaryOutput, then through _validate_rules
\* (execute, lines 269-279)
ValidateSummary ==
    /\ sumPc = "returned by the provider"
    /\ LET v == ValidateText(sumIn.text)
       IN IF v.err # NoError
          THEN /\ sumOut' = NoneVal
               /\ sumErr' = v.err
          ELSE LET r == ValidateRules(parsed_rules,
                                      [text |-> v.text, word_count |-> sumIn.word_count])
               IN /\ sumOut' = r.result
                  /\ sumErr' = r.err
    /\ sumPc' = "done"
    /\ UNCHANGED <<sumIn, parsed_rules>>
    /\ UNCHANGED <<progVars, pipeVars, gsVars, clfVars, sinkVars>>

SumNext ==
    \/ ValidateSummary

SumIdle ==
    /\ sumIn = NoneVal /\ parsed_rules = NoneVal /\ sumOut = NoneVal
    /\ sumErr = NoError /\ sumPc = ""

-----------------------------------------------------------------------------
(* core/pipeline.py, lines 176 and 200-213: progress logging               *)

MaxRecords == 200

\* what source.count() may have returned: None or a number
Totals == {NoneVal} \cup {Given(t) : t \in {0, 5, 10, 25, 1000, 2000}}

\* "milestone_interval = max(1, total_rows // 10)"
MilestoneInterval(t) == IF t \div 10 >= 1 THEN t \div 10 ELSE 1

\* lines 200-213 after the record number k: whether a progress line is logged
\* and what is raised; "progress_pct = (total_count / total_rows) * 100"
\* divides by the total
Progress(t, k) ==
    IF t # NoneVal
    THEN IF k % (IF MilestoneInterval(t.v) <= 100 THEN MilestoneInterval(t.v) ELSE 100) = 0
         THEN IF t.v = 0
              THEN [reported |-> FALSE, err |-> OtherError("ZeroDivisionError")]
              ELSE [reported |-> TRUE, err |-> NoError]
         ELSE [reported |-> FALSE, err |-> NoError]
    ELSE [reported |-> k % 100 = 0, err |-> NoError]

ProgInit ==
    /\ total_rows \in Totals
    /\ seen = 0
    /\ reported = FALSE
    /\ progErr = NoError

\* one more record has been processed (total_count += 1 ... lines 200-213);
\* an exception raised here is not caught by run()
LogProgress ==
    /\ progErr = NoError
    /\ seen < MaxRecords
    /\ seen' = seen + 1
    /\ LET p == Progress(total_rows, seen')
       IN /\ reported' = p.reported
          /\ progErr' = p.err
    /\ UNCHANGED total_rows
    /\ UNCHANGED <<sumVars, pipeVars, gsVars, clfVars, sinkVars>>

ProgNext ==
    \/ LogProgress

ProgIdle ==
    /\ total_rows = NoneVal /\ seen = 0 /\ reported = FALSE /\ progErr = NoError

FnIdle == SumIdle /\ ProgIdle

GsIdle ==
    /\ gs = NoState /\ gsOp = "" /\ gsErr = NoError /\ gsDict = NoneVal /\ restored = NoState
ClfIdle ==
    /\ taxonomyArg = <<>> /\ clf = NoneVal /\ ctorErr = NoError
PipeIdle ==
    /\ PipeInit
    /\ on_row_error = "fail"
    /\ max_retries = 0
    /\ source_kind = "csv"
    /\ dry_run = FALSE

Init == PipeInit /\ GsIdle /\ ClfIdle /\ SinkIdle /\ FnIdle
Next == PipeNext
Spec == Init /\ [][Next]_vars

\* a run over a CSV file that stops at the first failed record or goes on
\* after it ("skip" goes on as "dead_letter" does, without the line written)
LiveInit ==
    /\ on_row_error \in {"fail", "dead_letter"}
    /\ max_retries \in 0..MaxRetriesBound
    /\ source_kind = "csv"
    /\ num_rows = NumRows
    /\ dry_run \in BOOLEAN
    /\ provider = AnyProvider
    /\ PipeStart
    /\ GsIdle /\ ClfIdle /\ SinkIdle /\ FnIdle

\* run() is one thread of control: while a step of its own is possible, one
\* is taken.  The KeyboardInterrupt (the one step that sets interruptedAt)
\* comes from outside and may never come.
LiveSpec == LiveInit /\ [][Next]_vars /\ WF_vars(Next /\ interruptedAt' = interruptedAt)

-----------------------------------------------------------------------------
(* Pipeline.run over a MockProvider (tests/test_integration.py)            *)

\* the rows of the sample_csv fixture
SampleCsvRows == 3
\* test_mock_provider_retry_logic: fail twice, three retries allowed
RetryTestFailTimes == 2
RetryTestMaxRetries == 3
\* test_dead_letter_captures_validation_failure: fail ten times, two retries
DeadLetterTestFailTimes == 10
DeadLetterTestMaxRetries == 2

FailTimes == {0, RetryTestFailTimes, DeadLetterTestFailTimes}

MockInit ==
    /\ on_row_error \in ErrorModes
    /\ max_retries \in 0..MaxMockRetries
    /\ source_kind \in {"csv", "sql"}
    /\ num_rows \in 1..MaxMockRows
    /\ dry_run \in BOOLEAN
    /\ provider \in {MockProvider(d, f) : d \in {NoneVal, DefaultResponse}, f \in FailTimes}
    /\ PipeStart

MockSpecInit == MockInit /\ GsIdle /\ ClfIdle /\ SinkIdle /\ FnIdle
MockSpec == MockSpecInit /\ [][Next]_vars

-----------------------------------------------------------------------------
(* One record through the retry wrapper, over a provider whose validation  *)
(* failures carry different texts (llm/client.py)                          *)

MaxClientRetries == 2

\* LLMClientWithRetry.__init__ and Pipeline.__init__ take any int
MinClientRetries == -1

ClientInit ==
    /\ on_row_error \in ErrorModes
    /\ max_retries \in MinClientRetries..MaxClientRetries
    /\ source_kind \in {"csv", "sql", "csv_sparse"}
    /\ num_rows = 1
    /\ dry_run \in BOOLEAN
    /\ provider = AnyProviderOf(ValidationTexts)
    /\ PipeStart

ClientSpecInit == ClientInit /\ GsIdle /\ ClfIdle /\ SinkIdle /\ FnIdle

\* the steps of run(), with the extractor failure the sparse rows bring and
\* the empty retry loop a negative max_retries brings
ClientNext ==
    \/ DryRun
    \/ StartRun
    \/ FetchRow
    \/ SourceFails
    \/ SourceExhausted
    \/ BeginStep
    \/ InputMapFails
    \/ LoopFallsThrough
    \/ AttemptValid
    \/ AttemptInvalid
    \/ AttemptError
    \/ RuleCheck
    \/ SinkWrite
    \/ SinkFails
    \/ CountSuccess
    \/ HandleError
    \/ CountFailure
    \/ ReportProgress
    \/ Interrupt

ClientSpec == ClientSpecInit /\ [][ClientNext]_vars

-----------------------------------------------------------------------------
(* A GlobalState used directly: construction, writes through state.raw,    *)
(* step outputs, completion, serialization (core/state.py)                 *)

RawKeys == {"name", "age"}
RawValues == {Str("John"), Str("Jane")}
RawInputs == {[k \in D |-> Str("John")] : D \in SUBSET RawKeys}
TimeValues == {DateTime(s, us) : s \in 0..MaxSeconds, us \in 0..MaxMicros}
ProcessedInputs == {NoneVal, Given(EmptyMap),
                    Given([visit_type |-> [category |-> "Emergency"]])}
LogInputs == {NoneVal, Given(<<>>), Given(<<"visit_classifier">>)}

GsInit ==
    /\ \E raw \in RawInputs, processed \in ProcessedInputs, log \in LogInputs,
          created_at \in TimeValues \cup {NoneVal},
          completed_at \in TimeValues \cup {NoneVal} :
          gs = GlobalState(1, raw, processed, log, created_at, completed_at)
    /\ gsOp = "init"
    /\ gsErr = NoError
    /\ gsDict = NoneVal
    /\ restored = NoState

\* state.raw[k] = v
RawSetItem ==
    /\ \E k \in RawKeys \cup {"new_field"}, v \in RawValues :
          LET r == ProxySetItem(gs.raw, k, v)
          IN /\ gs' = [gs EXCEPT !.raw = r.raw]
             /\ gsErr' = r.err
    /\ gsOp' = "raw_setitem"
    /\ UNCHANGED <<gsDict, restored, pipeVars, clfVars, sinkVars, fnVars>>

\* del state.raw[k]
RawDelItem ==
    /\ \E k \in RawKeys :
          LET r == ProxyDelItem(gs.raw, k)
          IN /\ gs' = [gs EXCEPT !.raw = r.raw]
             /\ gsErr' = r.err
    /\ gsOp' = "raw_delitem"
    /\ UNCHANGED <<gsDict, restored, pipeVars, clfVars, sinkVars, fnVars>>

\* what can be raised inside step.run before anything is stored: KeyError by
\* an extractor of input_map, and from execute() the LLMValidationError of the
\* client, an error of the provider, the ValueError of the rule check
StepErrors ==
    {OtherError("KeyError"), OtherError("APIError"), OtherError("ValueError"),
     LLMValidationError("visit_classifier", 1, <<"field required">>, 1)}

\* a run() that wraps what it lets out
PropagateWrapped(e) == StepExecutionError("visit_classifier", 1, e)

\* AbstractBaseStep.run has no try/except: what is raised inside leaves as it is
Propagate(e) == e

\* AbstractBaseStep.run (lines 168-181): the record with the output stored and
\* the step logged, or the record as it was and the exception
StepRun(st, step, outcome) ==
    IF outcome.error = NoError
    THEN [state |-> StoreResult(st, step, outcome.response), err |-> NoError]
    ELSE [state |-> st, err |-> Propagate(outcome.error)]

\* a step run on the object: execute() returns a value, which has passed
\* the rule check of the step
StepStores ==
    /\ Len(gs.log) < MaxLogLen
    /\ gs.completed_at = NoneVal
    /\ \E i \in DOMAIN Steps : \E r \in Responses(Steps[i].kind) :
          /\ BusinessRuleOk(Steps[i].kind, r)
          /\ \A j \in DOMAIN gs.log : gs.log[j] # Steps[i].name
          /\ LET ran == StepRun(gs, Steps[i], [response |-> r, error |-> NoError])
             IN /\ gs' = ran.state
                /\ gsErr' = ran.err
    /\ gsOp' = "step"
    /\ UNCHANGED <<gsDict, restored, pipeVars, clfVars, sinkVars, fnVars>>

\* a step run on the object: an extractor or execute() raises
StepRaises ==
    /\ gsOp # "step_raised"
    /\ \E i \in DOMAIN Steps : \E e \in StepErrors :
          LET ran == StepRun(gs, Steps[i], [response |-> NoneVal, error |-> e])
          IN /\ gs' = ran.state
             /\ gsErr' = ran.err
    /\ gsOp' = "step_raised"
    /\ UNCHANGED <<gsDict, restored, pipeVars, clfVars, sinkVars, fnVars>>

\* state.completed_at = datetime.now() (pipeline.py line 320)
MarkCompleted ==
    /\ gs.completed_at = NoneVal
    /\ \E t \in TimeValues : gs' = [gs EXCEPT !.completed_at = t]
    /\ gsOp' = "complete"
    /\ gsErr' = NoError
    /\ UNCHANGED <<gsDict, restored, pipeVars, clfVars, sinkVars, fnVars>>

\* restored = GlobalState.from_dict(state.to_dict())
RoundTrip ==
    /\ gsDict' = ToDict(gs)
    /\ restored' = FromDict(gsDict')
    /\ gsOp' = "roundtrip"
    /\ gsErr' = NoError
    /\ UNCHANGED <<gs, pipeVars, clfVars, sinkVars, fnVars>>

GsNext ==
    \/ RawSetItem
    \/ RawDelItem
    \/ StepStores
    \/ StepRaises
    \/ MarkCompleted
    \/ RoundTrip

GsSpecInit == GsInit /\ PipeIdle /\ ClfIdle /\ SinkIdle /\ FnIdle
GsSpec == GsSpecInit /\ [][GsNext]_vars

-----------------------------------------------------------------------------
(* ClassifierStep construction (steps/classifier.py, lines 103-121)        *)

\* a taxonomy entry is passed as a dict or as a TaxonomyCategory
TaxonomyItems == {[kind |-> k, name |-> n, definition |-> "d"] :
                     k \in {"dict", "obj"}, n \in {"Emergency", "Routine"}}

SeqsUpTo(S, n) == UNION {[1..m -> S] : m \in 0..n}

\* lines 106-111: dicts become TaxonomyCategory objects
Normalize(taxonomy) ==
    [i \in DOMAIN taxonomy |->
        [name |-> taxonomy[i].name, definition |-> taxonomy[i].definition]]

\* line 113: "if not self.taxonomy"
TaxonomyEmpty(taxonomy) == Len(taxonomy) = 0

\* a constructor without the duplicate check
NoDuplicateCheck(taxonomy) == FALSE

\* line 120: "len(self.valid_categories) != len(self.taxonomy)"
HasDuplicateNames(taxonomy) == Cardinality(ValidCategories(taxonomy)) # Len(taxonomy)

\* ClassifierStep.__init__: the step, or the ValueError it raises
ClassifierStep(name, taxonomy, output_key) ==
    LET normalized == Normalize(taxonomy)
    IN IF TaxonomyEmpty(normalized)
       THEN [step |-> NoneVal, err |-> [type |-> "ValueError", msg |-> "Taxonomy cannot be empty"]]
       ELSE IF HasDuplicateNames(normalized)
       THEN [step |-> NoneVal,
             err |-> [type |-> "ValueError", msg |-> "Taxonomy contains duplicate category names"]]
       ELSE [step |-> [name |-> name, output_key |-> output_key, taxonomy |-> normalized,
                       valid_categories |-> ValidCategories(normalized)],
             err |-> NoError]

ClfInit ==
    /\ taxonomyArg \in SeqsUpTo(TaxonomyItems, MaxTaxonomy)
    /\ clf = NoneVal
    /\ ctorErr = NoError

Construct ==
    /\ clf = NoneVal
    /\ ctorErr = NoError
    /\ LET c == ClassifierStep("visit_classifier", taxonomyArg, "visit_type")
       IN /\ clf' = c.step
          /\ ctorErr' = c.err
    /\ UNCHANGED <<taxonomyArg, pipeVars, gsVars, sinkVars, fnVars>>

ClfNext ==
    \/ Construct

ClfSpecInit == ClfInit /\ PipeIdle /\ GsIdle /\ SinkIdle /\ FnIdle
ClfSpec == ClfSpecInit /\ [][ClfNext]_vars

\* the sinks on their own: two writers of one file, one batch to the table
SinkSpecInit == SinkInit /\ PipeIdle /\ GsIdle /\ ClfIdle /\ FnIdle
SinkSpec == SinkSpecInit /\ [][SinkNext]_vars

\* the summary checks on their own
SumSpecInit == SumInit /\ ProgIdle /\ PipeIdle /\ GsIdle /\ ClfIdle /\ SinkIdle
SumSpec == SumSpecInit /\ [][SumNext]_vars

\* the progress block on its own
ProgSpecInit == ProgInit /\ SumIdle /\ PipeIdle /\ GsIdle /\ ClfIdle /\ SinkIdle
ProgSpec == ProgSpecInit /\ [][ProgNext]_vars

-----------------------------------------------------------------------------
(* Properties of Pipeline.run (specification Spec)                         *)

\* C1: every run that returns a result has
\* success_count + failure_count = total_count.
\* Fails: an interrupt delivered inside _process_row leaves the row counted in
\* total_count and in neither of the other two.
CountsAddUp ==
    pc = "returned" =>
        result.success_count + result.failure_count = result.total_count

DeadLetterFields == {"pk", "step_name", "error_type", "error_message", "raw_data",
                     "processed_state", "steps_completed", "timestamp", "retry_attempts"}

\* C2: under dead_letter, when run returns, the dead letter file holds exactly
\* failure_count lines, each with the required fields.
\* Fails: an interrupt delivered after _write_dead_letter and before
\* "failure_count += 1" returns a count one below the number of lines.
DeadLetterLinesMatchFailures ==
    (on_row_error = "dead_letter" /\ pc = "returned") =>
        /\ Len(dead_letter) = result.failure_count
        /\ \A i \in DOMAIN dead_letter : DOMAIN dead_letter[i] = DeadLetterFields

IsExhaustion(e) ==
    /\ e.type = "StepExecutionError"
    /\ e.original_error.type = "LLMValidationError"

\* C3: one call of complete_with_validation invokes client.complete at most
\* max_retries + 1 times, and when every attempt failed validation the
\* LLMValidationError raised carries retry_count = max_retries + 1.
RetryBudgetRespected ==
    /\ calls <= max_retries + 1
    /\ (pc = "handle" /\ Len(accumulated_errors) = max_retries + 1) =>
           IsExhaustion(pendingError)
    /\ IsExhaustion(pendingError) =>
           /\ pendingError.original_error.retry_count = max_retries + 1
           /\ calls = max_retries + 1
           /\ Len(pendingError.original_error.validation_errors) = max_retries + 1

RetryBudgetWitness ==
    /\ IsExhaustion(pendingError)
    /\ max_retries = 1
    /\ calls = 2
    /\ pendingError.original_error.retry_count = 2

\* C4: a failing record makes run raise only under the fail policy, and then
\* on the first failing record; under skip and dead_letter it never does.
\* (A SourceError is not a record failure; it is left out of the statement.)
\* Fails: under dead_letter, json.dumps of a row holding a datetime raises
\* TypeError inside _write_dead_letter and the TypeError leaves run().
RaisesOnlyUnderFail ==
    (pc = "raised" /\ raisedError.type # "SourceError") =>
        /\ on_row_error = "fail"
        /\ failure_count = 0

\* C5: under the fail policy the first record failure leaves run() at once:
\* no failure is ever counted or absorbed, the failing record is the last one
\* fetched, and the sink holds exactly the records that succeeded before it.
FailPolicyHalts ==
    on_row_error = "fail" =>
        /\ failure_count = 0
        /\ pc # "failinc"
        /\ dead_letter = <<>>
        /\ pendingError # NoError => pc \in {"handle", "raised", "returned"}
        /\ (pc = "raised" /\ raisedError.type = "StepExecutionError") =>
               /\ raisedError = pendingError
               /\ raisedError.pk = cur
               /\ total_count = cur
               /\ success_count = cur - 1
               /\ sink = [i \in 1..(cur - 1) |-> i]

FailPolicyWitness ==
    /\ on_row_error = "fail"
    /\ pc = "raised"
    /\ raisedError.type = "StepExecutionError"
    /\ raisedError.step_name = "note_summarizer"
    /\ cur = 2
    /\ sink = <<1>>

\* C6: a KeyboardInterrupt delivered in the row loop makes run() return the
\* counters as they stand; it is not raised to the caller, no failure is
\* counted for it and no dead letter line is written for it.
InterruptReturnsPartial ==
    [][interruptedAt' # interruptedAt =>
          /\ pc \in LoopPcs
          /\ pc' = "returned"
          /\ raisedError' = NoError
          /\ result' = RunResult
          /\ UNCHANGED <<success_count, failure_count, total_count>>
          /\ UNCHANGED <<dead_letter, sink>>]_vars

InterruptWitness ==
    /\ interruptedAt = "attempt"
    /\ pc = "returned"
    /\ result.total_count = 2
    /\ result.success_count = 1

\* C7: an interrupt is observed only between records: when run() returns after
\* an interrupt, the last record fetched has finished and has been counted.
\* Fails: KeyboardInterrupt is raised wherever the thread is; a row can be left
\* with some of its steps done, not written and not counted.
InterruptOnlyBetweenRecords ==
    interruptedAt # "" =>
        /\ interruptedAt \in {"fetch", "progress"}
        /\ cur > 0 => (state.completed_at # NoneVal \/ pendingError = NoError)
        /\ success_count + failure_count = cur

\* C14: run(dry_run=True) returns total_count = 0, success_count = 0,
\* failure_count = 0, duration 0 and no dead letter path, and touches no row:
\* the source is not iterated, no step and no completion attempt runs, nothing
\* is written to the sink, the dead letter file or the payload log.
DryRunTouchesNothing ==
    dry_run =>
        /\ pc \in {"start", "returned"}
        /\ pc = "returned" => result = PipelineResult(0, 0, 0, 0, NoneVal)
        /\ cur = 0
        /\ state = NoState
        /\ stepIdx = 0
        /\ calls = 0
        /\ sink = <<>>
        /\ dead_letter = <<>>
        /\ payload_log = <<>>
        /\ failures = <<>>

DryRunWitness ==
    /\ dry_run
    /\ pc = "returned"
    /\ result.total_count = 0
    /\ result.duration_seconds = 0
    /\ result.dead_letter_path = NoneVal

Last(seq) == seq[Len(seq)]

OtherErrorReraised ==
    [][(/\ pc = "attempt"
        /\ Len(payload_log') > Len(payload_log)
        /\ Last(payload_log').error \notin ValidationTexts \cup {""}) =>
          /\ payload_log' = Append(payload_log, Last(payload_log'))
          /\ Last(payload_log').retry_count = attempt
          /\ pc' = "handle"
          /\ pendingError' = StepExecutionError(Steps[stepIdx].name, state.pk,
                                                OtherError(Last(payload_log').error))
          /\ calls' = calls + 1
          /\ UNCHANGED <<attempt, current_messages, accumulated_errors>>]_vars

OtherErrorWitness ==
    /\ pc = "handle"
    /\ pendingError.original_error.type = "APIError"
    /\ Last(payload_log).error = "APIError"
    /\ attempt = 0
    /\ RetriesLeft(attempt)
    /\ calls = 1
    /\ current_messages = messages

\* the state belongs to the call of complete_with_validation made for step
\* stepIdx of the row in flight
InCall ==
    /\ stepIdx \in DOMAIN Steps
    /\ \/ pc \in {"attempt", "rule", "handle", "failinc"}
       \/ pc = "raised" /\ raisedError.type # "SourceError"
       \/ pc = "returned" /\ interruptedAt \in {"attempt", "complete", "rule", "handle", "failinc"}

OfCall(e) == e.pk = state.pk /\ e.step = Steps[stepIdx].name

CallEntries == SelectSeq(payload_log, OfCall)

\* C17: every completion attempt appends exactly one entry to the payload
\* log: the entries a call of complete_with_validation appended are as many as
\* the attempts it made, with retry_count 0, 1, 2, ... in attempt order.
\* Fails: a KeyboardInterrupt delivered inside client.complete ends the call
\* with an attempt made and no entry written for it.
OneLogEntryPerAttempt ==
    InCall =>
        /\ Len(CallEntries) = calls
        /\ \A i \in DOMAIN CallEntries : CallEntries[i].retry_count = i - 1

StepNames == [i \in DOMAIN Steps |-> Steps[i].name]

\* the names of the steps that come before the named one ("sink": all of them)
StepsBefore(step_name) ==
    IF step_name = "sink" THEN StepNames
    ELSE SubSeq(StepNames, 1, (CHOOSE i \in DOMAIN Steps : Steps[i].name = step_name) - 1)

\* the payload log entries of one step invocation
EntriesOf(pk, step_name) ==
    LET Test(e) == e.pk = pk /\ e.step = step_name
    IN SelectSeq(payload_log, Test)

\* the output the named step stored for the row: the dump of the valid response logged
OutputOf(pk, i) ==
    ModelDump(Steps[i].kind, Last(EntriesOf(pk, Steps[i].name)).response)

\* C18: a failure of a step or of the sink write is wrapped with the record
\* key and the name of the failing step ("sink" for the sink write); the dead
\* letter line of the record has that step_name, steps_completed = the steps
\* that completed before the failure, in order, processed_state = their
\* outputs, and retry_attempts = the attempts made when validation was
\* exhausted, 0 otherwise.
FailureContextRecorded ==
    /\ pc = "handle" =>
           /\ pendingError.type = "StepExecutionError"
           /\ pendingError.pk = state.pk
           /\ pendingError.step_name =
                  IF stepIdx \in DOMAIN Steps THEN Steps[stepIdx].name ELSE "sink"
           /\ (pendingError.step_name = "sink") =
                  (pendingError.original_error.type = "SinkError")
    /\ \A n \in DOMAIN dead_letter :
           LET line == dead_letter[n]
               done == StepsBefore(line.step_name)
           IN /\ \E f \in DOMAIN failures :
                     failures[f] = Failure(line.pk, line.step_name)
              /\ line.steps_completed = done
              /\ DOMAIN line.processed_state = {Steps[i].output_key : i \in DOMAIN done}
              /\ \A i \in DOMAIN done :
                     line.processed_state[Steps[i].output_key] = OutputOf(line.pk, i)
              /\ line.retry_attempts =
                     IF IsExhaustion(line.error_message)
                     THEN Len(EntriesOf(line.pk, line.step_name))
                     ELSE 0

FailureContextWitness ==
    /\ max_retries = MaxRetriesBound
    /\ \E n \in DOMAIN dead_letter :
           /\ dead_letter[n].step_name = "sink"
           /\ dead_letter[n].steps_completed = StepNames
           /\ dead_letter[n].retry_attempts = 0
    /\ \E n \in DOMAIN dead_letter :
           /\ dead_letter[n].step_name = "note_summarizer"
           /\ dead_letter[n].steps_completed = <<"visit_classifier">>
           /\ dead_letter[n].retry_attempts = max_retries + 1

\* C19: completed_at is unset until the record has left the pipeline
\* successfully: a record with completed_at set has had all its steps complete
\* and is in the sink; a record routed to the failure channel has it unset.
\* Fails: _process_row stamps completed_at before sink.write; when the write
\* raises, the record goes to the handler with completed_at set.
CompletedOnlyOnSuccess ==
    cur > 0 =>
        /\ state.completed_at # NoneVal =>
               /\ state.log = StepNames
               /\ \E i \in DOMAIN sink : sink[i] = state.pk
        /\ pc \in {"handle", "failinc"} => state.completed_at = NoneVal

\* C20: under dead_letter the line of a failed record is appended as soon as
\* the failure is handled: it is on the file before failure_count is
\* incremented and before the next record is fetched, so between records (and
\* while a record is being processed) the lines written equal failure_count.
DeadLetterWrittenAtOnce ==
    on_row_error = "dead_letter" =>
        /\ pc = "failinc" =>
               /\ Len(dead_letter) = failure_count + 1
               /\ Last(dead_letter).pk = cur
        /\ pc \in {"fetch", "progress"} => Len(dead_letter) = failure_count
        /\ pc \in {"step", "attempt", "rule", "sink", "succ", "handle"} =>
               Len(dead_letter) = failure_count

DeadLetterAtOnceWitness ==
    /\ on_row_error = "dead_letter"
    /\ pc = "fetch"
    /\ cur = 1
    /\ failure_count = 1
    /\ Len(dead_letter) = 1
    /\ dead_letter[1].pk = 1

\* run() went through the whole source and returned
RanToEnd == pc = "returned" /\ ~dry_run /\ interruptedAt = ""

\* C21: under skip a failed record is counted in failure_count and the run
\* goes on with the next record; no dead letter line is ever written.
SkipCountsAndContinues ==
    on_row_error = "skip" =>
        /\ dead_letter = <<>>
        /\ pc = "raised" => raisedError.type = "SourceError"
        /\ pc \in {"fetch", "progress"} =>
               /\ failure_count = Len(failures)
               /\ success_count + failure_count = cur
        /\ RanToEnd => /\ result.failure_count = Len(failures)
                       /\ result.total_count = num_rows

SkipWitness ==
    /\ on_row_error = "skip"
    /\ RanToEnd
    /\ failures # <<>>
    /\ failures[1].pk = 1
    /\ result.failure_count = 1
    /\ sink = <<2>>
    /\ dead_letter = <<>>

\* C22: the result carries the dead letter path exactly when failure_count > 0;
\* it is None when no record failed.
PathIffFailures ==
    pc = "returned" =>
        /\ (result.dead_letter_path # NoneVal) = (result.failure_count > 0)
        /\ result.dead_letter_path # NoneVal => result.dead_letter_path = DeadLetterPath
        /\ failures = <<>> => result.dead_letter_path = NoneVal

PathWitness ==
    /\ pc = "returned"
    /\ result.failure_count > 0
    /\ result.success_count > 0
    /\ result.dead_letter_path = DeadLetterPath

IsPrefix(a, b) == Len(a) <= Len(b) /\ SubSeq(b, 1, Len(a)) = a

\* C24: while a record is in flight its processed and log only grow (no key
\* of processed is removed, log is only appended to) and raw stays as it is;
\* once completed_at is set the record does not change again.
RecordOnlyGrows ==
    [][(cur > 0 /\ cur' = cur) =>
          /\ state'.pk = state.pk
          /\ state'.raw = state.raw
          /\ IsPrefix(state.log, state'.log)
          /\ DOMAIN state.processed \subseteq DOMAIN state'.processed
          /\ state.completed_at # NoneVal => state' = state]_vars

RecordOnlyGrowsWitness ==
    /\ pc = "progress"
    /\ state.completed_at # NoneVal
    /\ state.log = StepNames
    /\ DOMAIN state.processed = {"visit_type", "summary"}
    /\ success_count = cur

\* C25: complete_with_validation never changes the list of messages it was
\* handed: at every step of a call, whether it goes on, returns or raises, the
\* caller's list is the prompt the step built, whatever was appended to the
\* working copy.
CallerMessagesUntouched ==
    [][pc = "attempt" =>
          /\ messages = BuildPrompt(Steps[stepIdx], state.pk)
          /\ messages' = messages]_vars

CallerMessagesWitness ==
    /\ pc = "handle"
    /\ pendingError.type = "StepExecutionError"
    /\ pendingError.original_error.type = "LLMValidationError"
    /\ max_retries > 0
    /\ Len(current_messages) = Len(messages) + max_retries
    /\ messages = BuildPrompt(Steps[stepIdx], state.pk)

StepIndex(step_name) == CHOOSE i \in DOMAIN Steps : Steps[i].name = step_name

\* each element is below the next one (so below every later one)
Increasing(seq) == \A i \in 1..(Len(seq) - 1) : seq[i] < seq[i + 1]

\* C28: records are processed one after the other in source order: the rows
\* of the sink, the lines of the dead letter file and the failures are in
\* source order, the payload log never goes back to an earlier record, an
\* earlier step of a record or an earlier attempt of a step, nothing is
\* written for a record not fetched yet, and when the next record is about
\* to be fetched every earlier one is either written or failed.
SequentialOrder ==
    /\ Increasing(sink)
    /\ Increasing([i \in DOMAIN dead_letter |-> dead_letter[i].pk])
    /\ Increasing([i \in DOMAIN failures |-> failures[i].pk])
    /\ \A i \in 1..(Len(payload_log) - 1) :
            LET a == payload_log[i]
                b == payload_log[i + 1]
            IN \/ a.pk < b.pk
               \/ a.pk = b.pk /\ StepIndex(a.step) < StepIndex(b.step)
               \/ a.pk = b.pk /\ a.step = b.step /\ a.retry_count < b.retry_count
    /\ \A i \in DOMAIN sink : sink[i] <= cur
    /\ \A i \in DOMAIN dead_letter : dead_letter[i].pk <= cur
    /\ \A i \in DOMAIN payload_log : payload_log[i].pk <= cur
    /\ pc = "fetch" =>
          \A k \in 1..cur :
              (\E i \in DOMAIN sink : sink[i] = k)
                  # (\E i \in DOMAIN failures : failures[i].pk = k)

SequentialOrderWitness ==
    /\ pc = "fetch"
    /\ cur = 2
    /\ sink = <<1, 2>>
    /\ Len(payload_log) > 4

TaxonomyNames == {"Emergency", "Routine"}

\* C31: the category a classifier step stores is one of the taxonomy names,
\* letter for letter; a schema-valid completion whose category is not one of
\* them (here: differs in letter case) makes the step fail with a ValueError
\* and leaves the record as it was.
CategoryInTaxonomy ==
    [][/\ (cur' > 0 /\ "visit_type" \in DOMAIN state'.processed) =>
              state'.processed["visit_type"].category \in TaxonomyNames
       /\ (/\ pc = "rule"
           /\ Steps[stepIdx].kind = "classifier"
           /\ response.category \notin TaxonomyNames) =>
              /\ state' = state
              /\ pc' \in {"handle", "returned"}
              /\ pc' = "handle" =>
                     pendingError' = StepExecutionError(Steps[stepIdx].name, state.pk,
                                                        OtherError("ValueError"))]_vars

CategoryWitness ==
    /\ pc = "handle"
    /\ stepIdx = 1
    /\ response = [category |-> "emergency"]
    /\ pendingError.type = "StepExecutionError"
    /\ pendingError.original_error = OtherError("ValueError")
    /\ DOMAIN state.processed = {}
    /\ state.log = <<>>

InSink(k) == \E i \in DOMAIN sink : sink[i] = k
Failed(k) == \E i \in DOMAIN failures : failures[i].pk = k

\* C34: as long as the run was neither interrupted nor halted, every record
\* it has finished was either accepted by the sink and counted in
\* success_count or handled as a failure and counted in failure_count, never
\* both and never neither; success_count is the number of rows of the sink.
OneDispositionPerRecord ==
    (pc \in {"progress", "fetch"} \/ RanToEnd) =>
        /\ \A k \in 1..cur : InSink(k) # Failed(k)
        /\ success_count = Len(sink)
        /\ failure_count = Len(failures)
        /\ success_count + failure_count = cur
        /\ total_count = cur
        /\ RanToEnd =>
              /\ result.success_count = Len(sink)
              /\ result.failure_count = Len(failures)

OneDispositionWitness ==
    /\ RanToEnd
    /\ cur = 2
    /\ InSink(1)
    /\ Failed(2)
    /\ result.success_count = 1
    /\ result.failure_count = 1

\* C35: the log of every record is a prefix of the list of step names (the
\* steps run in list order, each at most once), and once a step has failed
\* for a record nothing more is run or stored for it and the sink is not
\* written.
LogIsPrefixOfSteps ==
    [][/\ cur' > 0 => IsPrefix(state'.log, StepNames)
       /\ (cur' > 0 /\ pc' \in {"step", "attempt", "rule"}) =>
              state'.log = SubSeq(StepNames, 1, stepIdx' - 1)
       /\ (cur > 0 /\ cur' = cur /\ Failed(cur)) =>
              /\ state' = state
              /\ calls' = calls
              /\ payload_log' = payload_log
              /\ sink' = sink
              /\ ~InSink(cur)]_vars

LogIsPrefixWitness ==
    /\ pc = "failinc"
    /\ state.log = <<"visit_classifier">>
    /\ Failed(cur)
    /\ Last(failures).step_name = "note_summarizer"
    /\ ~InSink(cur)

\* the request of a logged attempt is the prompt of its own step and record
\* followed by one feedback message per earlier attempt of the same call
OwnConversation(entry) ==
    /\ Len(entry.request) = 2 + entry.retry_count
    /\ \E i \in DOMAIN Steps :
          /\ entry.step = Steps[i].name
          /\ SubSeq(entry.request, 1, 2) = BuildPrompt(Steps[i], entry.pk)

\* C38: the retry budget and the conversation belong to one call of
\* complete_with_validation: a call starts at attempt 0 with the prompt alone
\* and nothing accumulated, it gives up only after max_retries + 1 attempts,
\* and no request carries feedback of an earlier call.
BudgetPerInvocation ==
    [][/\ (pc = "step" /\ pc' = "attempt") =>
              /\ attempt' = 0
              /\ calls' = 0
              /\ accumulated_errors' = <<>>
              /\ current_messages' = BuildPrompt(Steps[stepIdx], state.pk)
       /\ (pc = "attempt" /\ pc' = "handle"
              /\ pendingError'.original_error.type = "LLMValidationError") =>
              calls' = max_retries + 1
       /\ \A i \in DOMAIN payload_log' : OwnConversation(payload_log'[i])]_vars

\* a call begins after an earlier call was sent feedback
BudgetPerInvocationWitness ==
    /\ pc = "attempt"
    /\ attempt = 0
    /\ \E i \in DOMAIN payload_log : payload_log[i].retry_count > 0

\* the calls of client.complete made so far in the run: each one that came
\* back left one payload entry, the one a KeyboardInterrupt cut short left none
TotalAttempts ==
    Len(payload_log) + (IF interruptedAt = "complete" THEN 1 ELSE 0)

RunEnded == pc \in {"returned", "raised"}

SourceRaises ==
    /\ pc = "fetch"
    /\ cur' = cur
    /\ cur < num_rows
    /\ interruptedAt' = interruptedAt

\* C40: a failure of the source while fetching the next record is not a
\* record failure: under every policy it leaves failure_count and the
\* dead-letter file alone and leaves run() as a SourceError with no result;
\* what the sink and the dead-letter file held before stays as it is.
SourceErrorPropagates ==
    [][/\ SourceRaises =>
              /\ pc' = "raised"
              /\ raisedError'.type = "SourceError"
              /\ result' = NoResult
              /\ UNCHANGED <<success_count, failure_count, total_count>>
              /\ UNCHANGED <<sink, dead_letter, failures>>
       /\ pc = "raised" => UNCHANGED <<sink, dead_letter, failure_count>>]_vars

\* the source fails after a record was dead-lettered
SourceErrorWitness ==
    /\ pc = "raised"
    /\ raisedError.type = "SourceError"
    /\ failure_count = 1
    /\ Len(dead_letter) = 1

-----------------------------------------------------------------------------
(* Properties of complete_with_validation, checked under ClientSpec *)

\* msgs is the caller's list followed by n user messages quoting errs[1..n]
IsFeedback(msgs, n, errs) ==
    /\ Len(msgs) = Len(messages) + n
    /\ SubSeq(msgs, 1, Len(messages)) = messages
    /\ \A j \in 1..n :
          /\ msgs[Len(messages) + j].role = "user"
          /\ msgs[Len(messages) + j].quoted = errs[j]

\* C26: each validation failure with attempts remaining appends one user
\* message quoting that failure, so the request of attempt i is the original
\* messages followed by i feedback messages in failure order (attempts counted
\* from 0, as retry_count is); the last permitted failure appends nothing.
FeedbackQuotesFailures ==
    /\ pc = "attempt" =>
          /\ Len(accumulated_errors) = attempt
          /\ IsFeedback(current_messages, attempt, accumulated_errors)
    /\ InCall =>
          \A i \in DOMAIN CallEntries :
              IsFeedback(CallEntries[i].request, CallEntries[i].retry_count,
                         [j \in DOMAIN CallEntries |-> CallEntries[j].error])
    /\ (pc = "handle" /\ IsExhaustion(pendingError)) =>
          /\ Len(accumulated_errors) = max_retries + 1
          /\ IsFeedback(current_messages, max_retries, accumulated_errors)

FeedbackWitness ==
    /\ pc = "attempt"
    /\ attempt = 2
    /\ accumulated_errors[1] # accumulated_errors[2]
    /\ Len(current_messages) = Len(messages) + 2
    /\ Len(CallEntries) = 2

\* C27: the LLMValidationError raised when the attempts are exhausted carries
\* the step name and the pk the caller passed and the error text of every
\* failed attempt in attempt order, max_retries + 1 of them.
ExhaustionCarriesAllErrors ==
    (pc = "handle" /\ IsExhaustion(pendingError)) =>
        LET e == pendingError.original_error
        IN /\ e.step_name = Steps[stepIdx].name
           /\ e.pk = state.pk
           /\ Len(e.validation_errors) = max_retries + 1
           /\ Len(CallEntries) = max_retries + 1
           /\ \A j \in DOMAIN CallEntries :
                 /\ CallEntries[j].retry_count = j - 1
                 /\ e.validation_errors[j] = CallEntries[j].error

ExhaustionWitness ==
    /\ pc = "handle"
    /\ IsExhaustion(pendingError)
    /\ max_retries = 2
    /\ stepIdx = 2
    /\ pendingError.original_error.validation_errors =
           <<"field required", "input should be a valid string", "field required">>

\* the step in progress returns: its output is stored
StepReturns == pc = "rule" /\ pc' \in {"step", "sink"}

\* C36: when step.run raises (an extractor, the completion, the exhausted
\* retries or the rule check), processed and log are what they were when the
\* step started: from the start of a step to its failure the record does not
\* change, and at the failure it holds the outputs and the names of the
\* earlier steps only.
FailedStepLeavesNoTrace ==
    [][/\ (pc \in {"step", "attempt", "rule"} /\ ~StepReturns) => state' = state
       /\ (pc \in {"step", "attempt", "rule"} /\ pc' = "handle") =>
              /\ pendingError'.type = "StepExecutionError"
              /\ state'.log = SubSeq(StepNames, 1, stepIdx - 1)
              /\ DOMAIN state'.processed = {Steps[i].output_key : i \in 1..(stepIdx - 1)}]_vars

FailedStepWitness ==
    /\ pc = "handle"
    /\ stepIdx = 2
    /\ IsExhaustion(pendingError)
    /\ max_retries = 1
    /\ state.log = <<"visit_classifier">>
    /\ DOMAIN state.processed = {"visit_type"}

\* an extractor failed: nothing was asked of the provider
ExtractorFailureWitness ==
    /\ pc = "handle"
    /\ pendingError.type = "StepExecutionError"
    /\ pendingError.original_error = OtherError("KeyError")
    /\ payload_log = <<>>

\* C37: for every max_retries a call of complete_with_validation makes at
\* least one attempt and ends by returning a schema-valid value or by
\* raising; it never returns without a value.
\* Fails for a negative max_retries: the loop body never runs.
AttemptsThenValueOrRaise ==
    [][(pc = "attempt" /\ pc' \notin {"attempt", "returned"}) =>
          /\ calls' >= 1
          /\ \/ pc' = "rule" /\ response' \in Responses(Steps[stepIdx].kind)
             \/ pc' = "handle" /\ pendingError' # NoError]_vars

\* the same for the max_retries that are not negative
AttemptsThenValueOrRaiseNonNegative ==
    [][(max_retries >= 0 /\ pc = "attempt" /\ pc' \notin {"attempt", "returned"}) =>
          /\ calls' >= 1
          /\ \/ pc' = "rule" /\ response' \in Responses(Steps[stepIdx].kind)
             \/ pc' = "handle" /\ pendingError' # NoError]_vars

-----------------------------------------------------------------------------
(* Properties of Pipeline.run over a MockProvider (specification MockSpec) *)

RowsInOrder(n) == [i \in 1..n |-> i]

\* C11: when every step and every sink write succeeds for each of the N rows
\* of the source, run returns total_count = N, success_count = N,
\* failure_count = 0 and the sink holds exactly the N rows, one per row.
AllRowsSucceed ==
    (RanToEnd /\ failures = <<>>) =>
        /\ result.total_count = num_rows
        /\ result.success_count = num_rows
        /\ result.failure_count = 0
        /\ sink = RowsInOrder(num_rows)

AllRowsSucceedWitness ==
    /\ RanToEnd
    /\ failures = <<>>
    /\ on_row_error = "fail"
    /\ provider.fail_validation_times = 0
    /\ num_rows = SampleCsvRows
    /\ result.success_count = SampleCsvRows
    /\ Len(sink) = SampleCsvRows

NoSinkFailure == \A i \in DOMAIN failures : failures[i].step_name # "sink"

\* C12: validation failures within the retry budget are absorbed.  While at
\* most max_retries attempts have failed validation the loop takes another
\* response, a valid response is returned to the step with no error pending,
\* and LLMValidationError is raised only after max_retries + 1 failures; so a
\* stub that fails at most max_retries times before succeeding (twice with
\* max_retries = 3 in the test) makes no row fail.
RetriesAbsorbed ==
    /\ pc = "attempt" =>
           /\ attempt = Len(accumulated_errors)
           /\ InRange(attempt)
           /\ pendingError = NoError
    /\ pc = "rule" =>
           /\ response # NoneVal
           /\ Len(accumulated_errors) <= max_retries
           /\ pendingError = NoError
    /\ IsExhaustion(pendingError) =>
           Len(pendingError.original_error.validation_errors) > max_retries
    /\ (/\ RanToEnd
        /\ provider.default_response # NoneVal
        /\ provider.fail_validation_times <= max_retries
        /\ NoSinkFailure) =>
           /\ failures = <<>>
           /\ result.success_count = num_rows
           /\ result.failure_count = 0

RetriesAbsorbedWitness ==
    /\ RanToEnd
    /\ provider.fail_validation_times = RetryTestFailTimes
    /\ max_retries = RetryTestMaxRetries
    /\ num_rows = SampleCsvRows
    /\ result.success_count = SampleCsvRows
    /\ \E i \in DOMAIN payload_log : payload_log[i].retry_count = RetryTestFailTimes
                                        /\ payload_log[i].error = ""

\* C13: a stub that fails validation in every attempt the run makes (10
\* failures configured, max_retries = 2, three rows) under dead_letter: every
\* row fails, the dead letter file has one line per row, in row order, and
\* each line has retry_attempts = max_retries + 1 (3 in the test).
AllRowsDeadLettered ==
    (/\ RanToEnd
     /\ on_row_error = "dead_letter"
     /\ provider.fail_validation_times >= num_rows * (max_retries + 1)) =>
        /\ result.success_count = 0
        /\ result.failure_count = num_rows
        /\ result.total_count = num_rows
        /\ sink = <<>>
        /\ Len(dead_letter) = num_rows
        /\ \A i \in DOMAIN dead_letter :
               /\ dead_letter[i].pk = i
               /\ dead_letter[i].retry_attempts = max_retries + 1

AllRowsDeadLetteredWitness ==
    /\ RanToEnd
    /\ on_row_error = "dead_letter"
    /\ provider.fail_validation_times = DeadLetterTestFailTimes
    /\ max_retries = DeadLetterTestMaxRetries
    /\ num_rows = SampleCsvRows
    /\ Len(dead_letter) = SampleCsvRows
    /\ \A i \in DOMAIN dead_letter : dead_letter[i].retry_attempts = 3

-----------------------------------------------------------------------------
(* Properties of GlobalState (specification GsSpec)                        *)

RoundTripPreserves ==
    gsOp = "roundtrip" =>
        /\ restored.pk = gs.pk
        /\ restored.raw = gs.raw
        /\ restored.processed = gs.processed
        /\ restored.log = gs.log
        /\ restored.created_at = gs.created_at
        /\ restored.completed_at = gs.completed_at

RoundTripWitness ==
    /\ gsOp = "roundtrip"
    /\ gs.created_at.us # 0
    /\ gs.completed_at = NoneVal
    /\ restored.completed_at = NoneVal
    /\ Len(gs.log) = 2

\* the record after step i stored an output: the key holds a dump of a
\* response of the step's kind, the name is appended, nothing else changed
StoredBy(before, after, i) ==
    /\ after.log = Append(before.log, Steps[i].name)
    /\ DOMAIN after.processed = DOMAIN before.processed \cup {Steps[i].output_key}
    /\ after.processed[Steps[i].output_key] \in
           {ModelDump(Steps[i].kind, r) : r \in Responses(Steps[i].kind)}
    /\ \A k \in DOMAIN before.processed \ {Steps[i].output_key} :
           after.processed[k] = before.processed[k]
    /\ after.pk = before.pk
    /\ after.raw = before.raw
    /\ after.created_at = before.created_at
    /\ after.completed_at = before.completed_at

\* C23: step.run on success stores the output under the step's output_key,
\* appends the step name to log and returns the record; an exception raised
\* while extracting inputs or executing leaves run as the same exception, not
\* wrapped (no StepExecutionError), with the record as it was.
StepRunContract ==
    [][/\ gsOp' = "step" =>
              /\ gsErr' = NoError
              /\ \E i \in DOMAIN Steps : StoredBy(gs, gs', i)
       /\ gsOp' = "step_raised" =>
              /\ gsErr' \in StepErrors
              /\ gsErr'.type # "StepExecutionError"
              /\ gs' = gs]_vars

StepRunWitness ==
    /\ gsOp = "step_raised"
    /\ gsErr.type = "LLMValidationError"
    /\ gs.log = <<"visit_classifier", "note_summarizer">>
    /\ DOMAIN gs.processed = {"visit_type", "summary"}

-----------------------------------------------------------------------------
(* Properties of ClassifierStep.__init__ (specification ClfSpec)           *)

Constructed == clf # NoneVal
CtorRan == clf # NoneVal \/ ctorErr # NoError
RepeatsAName(taxonomy) ==
    \E i, j \in DOMAIN taxonomy : i # j /\ taxonomy[i].name = taxonomy[j].name

\* C10: the constructor raises for an empty taxonomy and for a taxonomy that
\* repeats a name; a constructed ClassifierStep has a non-empty taxonomy with
\* unique names.
TaxonomyCheckedAtConstruction ==
    /\ Constructed => /\ Len(clf.taxonomy) > 0
                      /\ ~RepeatsAName(clf.taxonomy)
    /\ (CtorRan /\ Len(taxonomyArg) = 0) =>
           (~Constructed /\ ctorErr.type = "ValueError")
    /\ (CtorRan /\ RepeatsAName(taxonomyArg)) =>
           (~Constructed /\ ctorErr.type = "ValueError")

DuplicateRejectedWitness ==
    /\ ~Constructed
    /\ ctorErr.type = "ValueError"
    /\ Len(taxonomyArg) = 2
    /\ taxonomyArg[1].name = taxonomyArg[2].name

-----------------------------------------------------------------------------
(* Properties of the sinks (specification SinkSpec) *)

\* the writer is inside write / write_batch, between taking the lock and
\* closing the file
InWrite(w) == wpc[w] \in {"extract", "check", "open", "rows"}

HeaderLines == {k \in DOMAIN file : file[k].line = "header"}

\* C29: writers that append to the same file through sink objects of their
\* own are serialized: no two of them are inside a write at the same time,
\* the lines of one write are not separated by another writer's lines, and
\* the file has at most one header row.
\* Fails: the lock belongs to the sink object, not to the file.
WritesSerializedPerTarget ==
    /\ \A v, w \in Writers : (InWrite(v) /\ InWrite(w)) => v = w
    /\ \A i, j, k \in DOMAIN file :
          (i < j /\ j < k /\ file[i].writer = file[k].writer) =>
              file[j].writer = file[i].writer
    /\ Cardinality(HeaderLines) <= 1

RowsOnFile(w) == {k \in DOMAIN file : file[k].line = "row" /\ file[k].writer = w}

\* C30: write_batch is all or nothing: when it raises, no row of the batch is
\* on the file or in the table; when it returns, every row of the batch is.
\* Fails: CSVSink.write_batch has nothing to undo the rows already written
\* when a later row cannot be written.
BatchAllOrNothing ==
    /\ \A w \in Writers :
          call[w].op = "write_batch" =>
              /\ wpc[w] = "raised" => RowsOnFile(w) = {}
              /\ wpc[w] = "returned" =>
                     \A i \in 1..call[w].n : \E k \in DOMAIN file : file[k] = RowLine(w, i)
    /\ sqlPc = "raised" => table = {}
    /\ sqlPc = "returned" => table = 1..sqlN

-----------------------------------------------------------------------------
(* Properties of the summary checks (specification SumSpec) *)

\* the positions where a word starts
WordStarts(t) == {i \in DOMAIN t : t[i] # " " /\ (i = 1 \/ t[i - 1] = " ")}

\* the term stands in the text at some position, letter case aside
Occurs(term, t) ==
    \E i \in 0..(Len(t) - Len(term)) :
        \A j \in DOMAIN term :
            \/ t[i + j] = term[j]
            \/ t[i + j] = "B" /\ term[j] = "b"

Satisfies(t, parsed) ==
    /\ parsed.max_words # NoneVal => Cardinality(WordStarts(t)) <= parsed.max_words.v
    /\ parsed.max_chars # NoneVal => Len(t) <= parsed.max_chars.v
    /\ \A k \in DOMAIN parsed.required_terms : Occurs(parsed.required_terms[k], t)

\* C32: a summary that passes has word_count equal to the number of words
\* of its text, whatever the model reported, and its text keeps within the
\* word ceiling and the character ceiling and holds every required term,
\* letter case aside; a text that breaks one of these makes the step fail.
SummaryRulesEnforced ==
    sumPc = "done" =>
        /\ sumErr = NoError =>
              /\ sumOut.text = Strip(sumIn.text)
              /\ sumOut.word_count = Cardinality(WordStarts(sumOut.text))
              /\ Satisfies(sumOut.text, parsed_rules)
        /\ ~Satisfies(Strip(sumIn.text), parsed_rules) =>
              /\ sumErr # NoError
              /\ sumOut = NoneVal

SummaryRulesWitness ==
    /\ sumPc = "done"
    /\ sumErr = NoError
    /\ sumIn = [text |-> <<"a", " ", "B">>, word_count |-> 5]
    /\ sumOut.word_count = 2
    /\ parsed_rules = ParsedRules(Given(2), Given(3), <<<<"a">>, <<"b">>>>)

-----------------------------------------------------------------------------
(* Properties of the progress block (specification ProgSpec) *)

\* a tenth of the total, at least one record
Tenth(t) == IF t \div 10 < 1 THEN 1 ELSE t \div 10

\* the record number at which a line is due
Due(k) ==
    IF total_rows = NoneVal THEN k % 100 = 0
    ELSE IF Tenth(total_rows.v) < 100 THEN k % Tenth(total_rows.v) = 0
    ELSE k % 100 = 0

\* C33: after every record the progress block raises nothing, and it logs a
\* line exactly when the record number is a multiple of 100 or of a tenth of
\* the known total, whichever is smaller (of 100 when the total is unknown),
\* for every total the source may have reported.
\* Fails for a reported total of 0: the percentage divides by the total.
ProgressCadence ==
    /\ progErr = NoError
    /\ seen > 0 => (reported <=> Due(seen))

\* the cadence alone, and the failure for the totals other than 0
ProgressCadenceNonZero ==
    (total_rows # Given(0) /\ seen > 0) =>
        /\ progErr = NoError
        /\ reported <=> Due(seen)

ProgressCadenceWitness ==
    /\ total_rows = Given(2000)
    /\ seen = 200
    /\ reported
====
